---- MODULE Spec2Model ----
(***************************************************************************)
(* A model of the run-time engine of checkergen (src/src/core.py):         *)
(* the phase clock of a CheckerBoard, the pre/disp/post loops of a         *)
(* CkgDisplayGroup, the frame loop of CkgRunState (cross, export file,     *)
(* trigger byte, event flags) and the sequencers CkgProj.display() and     *)
(* CkgProj.export().                                                       *)
(*                                                                         *)
(* Times (pre, disp, post, expo_dur) are python Decimals; they are held    *)
(* here as integer multiples of 1/TimeDen second.  Phases are Decimals     *)
(* of the default 28 significant digits; they are held as an integer part  *)
(* and FracLen decimal digits and rounded as the decimal module rounds.    *)
(***************************************************************************)
EXTENDS Integers, Sequences, FiniteSets, TLC

(***************************************************************************)
(* Bounds of the model                                                     *)
(***************************************************************************)
MaxBoardFps == 14
MaxFreq == 2
MaxUpdates == 30
\* times are multiples of 1/TimeDen second
TimeDen == 2
MaxFps == 2
MaxDur == 2
MaxCount == 8
\* a group driven on its own: frame rate, flips per trigger, frames
MaxFlipFps == 4
MaxFpst == 3
MaxFlipFrames == 12
\* the frame rate the eye tracker is polled at
MaxEyeFps == 10
\* the longest tuple assigned to an attribute
MaxArity == 3
\* the frames of a run that is followed statement by statement
MaxStepFrames == 3

\* the frames an export may count before the model stops it
MaxExportCount == 40

(***************************************************************************)
(* decimal.Decimal arithmetic, as far as CheckerBoard.update uses it       *)
(***************************************************************************)
Prec == 28
FracLen == 27

Digits == 1..FracLen

ZeroFrac == [k \in Digits |-> 0]

DecInt(i) == [i |-> i, f |-> ZeroFrac]

\* number of decimals a value of integer part i keeps at Prec digits
KeptDecimals(i) ==
    IF i >= 100 THEN Prec - 3 ELSE IF i >= 10 THEN Prec - 2 ELSE Prec - 1

RECURSIVE Carry(_, _, _)
\* carry out of the digits k..FracLen of the sum of the fractions a and b
Carry(a, b, k) ==
    IF k > FracLen THEN 0 ELSE (a[k] + b[k] + Carry(a, b, k + 1)) \div 10

\* the exact sum of two values
DecAddExact(x, y) ==
    [i |-> x.i + y.i + Carry(x.f, y.f, 1),
     f |-> [k \in Digits |-> (x.f[k] + y.f[k] + Carry(x.f, y.f, k + 1)) % 10]]

\* one unit in the K-th decimal (K = 0: the integer 1)
DecUlp(K) ==
    [i |-> IF K = 0 THEN 1 ELSE 0,
     f |-> [k \in Digits |-> IF k = K THEN 1 ELSE 0]]

\* ROUND_HALF_EVEN of v to K decimals, given what lies beyond the digits of
\* v: more = "a non-zero remainder follows the last digit of v"
DecRoundTo(v, K, more) ==
    LET trunc == [i |-> v.i,
                  f |-> [k \in Digits |-> IF k <= K THEN v.f[k] ELSE 0]]
        first == IF K < FracLen THEN v.f[K + 1] ELSE 0
        rest  == more \/ (\E k \in Digits : k > K + 1 /\ v.f[k] # 0)
        last  == IF K = 0 THEN v.i % 10 ELSE v.f[K]
        up    == \/ first > 5
                 \/ first = 5 /\ (rest \/ last % 2 = 1)
    IN  IF up THEN DecAddExact(trunc, DecUlp(K)) ELSE trunc

\* the context rounding applied to the result of every operation
DecRound(v) == DecRoundTo(v, KeptDecimals(v.i), FALSE)

DecAdd(x, y) == DecRound(DecAddExact(x, y))

RECURSIVE Rem(_, _, _)
\* remainder of the long division r / n after k more decimals
Rem(r, n, k) == IF k = 0 THEN r ELSE Rem((10 * r) % n, n, k - 1)

\* 180 / Decimal(n) for 1 <= n <= 180
DecDiv180(n) ==
    LET q == 180 \div n
        K == KeptDecimals(q)
        \* one digit more than is kept decides the rounding
        long == [i |-> q,
                 f |-> [k \in Digits |->
                          IF k <= K + 1
                          THEN (10 * Rem(180 % n, n, k - 1)) \div n
                          ELSE 0]]
        more == Rem(180 % n, n, K + 1) # 0
    IN  IF K + 1 <= FracLen
        THEN DecRoundTo(long, K, more)
        ELSE \* K = FracLen: the digit beyond the last one decides
             LET r == Rem(180 % n, n, FracLen)
                 up == \/ 2 * r > n
                       \/ 2 * r = n /\ long.f[FracLen] % 2 = 1
             IN  IF up THEN DecAddExact(long, DecUlp(FracLen)) ELSE long

\* x % 360 and int(x // 180) for x >= 0
DecMod360(x) == [i |-> x.i % 360, f |-> x.f]

Half(x) == x.i \div 180

(***************************************************************************)
(* CheckerBoard                                                            *)
(***************************************************************************)
INT_HALF_PERIODS == TRUE

\* round(fps / (freq * 2)): python 2 rounds halves away from zero
FramesPerHalfPeriod(fps, freq) == (fps + freq) \div (2 * freq)

\* CheckerBoard.reset()
BoardReset(b) ==
    [b EXCEPT !.cur_phase = DecInt(b.phase),
              !.prev_phase = DecInt(b.phase),
              !.flipped = FALSE]

\* does CheckerBoard.update(fps) raise (180 / Decimal(0))
BoardUpdateRaises(b, fps) ==
    b.freq # 0 /\ FramesPerHalfPeriod(fps, b.freq) = 0

\* a flip test that misses the wrap from 360 back to 0
FlipTestNoWrap(cur, prev) == Half(cur) > Half(prev)

\* int(cur // 180) != int(prev // 180)
FlipTest(cur, prev) == Half(cur) # Half(prev)

\* degs_per_frame
DegsPerFrame(b, fps) == DecDiv180(FramesPerHalfPeriod(fps, b.freq))

\* CheckerBoard.update(fps), when it does not raise
BoardUpdate(b, fps) ==
    LET prev == b.cur_phase
        adv  == IF b.freq # 0 THEN DecAdd(prev, DegsPerFrame(b, fps)) ELSE prev
        cur  == IF b.freq # 0 /\ adv.i >= 360 THEN DecMod360(adv) ELSE adv
    IN  [b EXCEPT !.prev_phase = prev,
                  !.cur_phase = cur,
                  !.flipped = FlipTest(cur, prev)]

\* CheckerBoard.update(fps) left by the exception: only the first
\* assignment has been made
BoardUpdateRaised(b) == [b EXCEPT !.prev_phase = b.cur_phase]

NewBoard(freq, phase) ==
    BoardReset([freq |-> freq, phase |-> phase,
                cur_phase |-> DecInt(0), prev_phase |-> DecInt(0),
                flipped |-> FALSE])

\* a draw that shows model 0 after every flip, and only then
DrawModelEveryFlip(b, photoburst) ==
    LET n == Half(DecMod360(b.cur_phase))
    IN  IF photoburst THEN (IF b.flipped THEN 0 ELSE 1) ELSE n

\* CheckerBoard.draw(photoburst): the batch that is drawn
DrawModel(b, photoburst) ==
    LET n == Half(DecMod360(b.cur_phase))
    IN  IF photoburst /\ n = 0 /\ ~b.flipped THEN 1 ELSE n

(***************************************************************************)
(* Times and frame counts                                                  *)
(***************************************************************************)
\* Decimal('Infinity')
Infinity == -3

\* None, where a number is expected
None == -1

\* a * fps for a time a, in units of 1/TimeDen frame
TimesFps(a, fps) == IF a = Infinity THEN Infinity ELSE a * fps

\* sum and minimum of times, Infinity included
TimeAdd(a, b) == IF a = Infinity \/ b = Infinity THEN Infinity ELSE a + b

TimeMin(a, b) == IF a = Infinity THEN b ELSE IF b = Infinity THEN a
                 ELSE IF a < b THEN a ELSE b

\* a loop that counts through the end of the interval as well
RangeLenInclusive(t, fps) == (t * fps) \div TimeDen + 1

\* range(t * fps): int() truncates the Decimal
RangeLen(t, fps) == (t * fps) \div TimeDen

\* round(t * fps), halves away from zero
RoundFrames(t, fps) == (2 * t * fps + TimeDen) \div (2 * TimeDen)

\* dict(cross)[time] for time = count / fps, or the cross as it is shown
CrossAt(cross, count, fps, show) ==
    LET hits == {k \in 1..Len(cross) : cross[k][1] * fps = count * TimeDen}
    IN  IF hits = {} THEN show
        ELSE cross[CHOOSE k \in hits : \A j \in hits : j <= k][2]

RECURSIVE DigitsOf(_)
DigitsOf(x) == IF x < 10 THEN 1 ELSE 1 + DigitsOf(x \div 10)

\* utils.numdigits(x) for x = a / TimeDen, 10 * |x| > 1 or x = 0
numdigits(a) ==
    LET m == IF a < 0 THEN -a ELSE a
    IN  IF m < TimeDen THEN 1 ELSE DigitsOf(m \div TimeDen)

(***************************************************************************)
(* CkgRunState                                                             *)
(***************************************************************************)
MAX_EXPORT_FRAMES == 1000

\* eyetracking.TRACK_PER and FIX_PER, in milliseconds
TRACK_PER == 300
FIX_PER == 300

\* the bound method self.encode_events that update() stores in _old_code:
\* it is equal to no trigger code
EncodeEventsMethod == -2

DefaultEvents ==
    [ord_id |-> None, blk_on |-> FALSE, blk_off |-> FALSE,
     track_on |-> FALSE, track_off |-> FALSE,
     fix_on |-> FALSE, fix_off |-> FALSE,
     grp_on |-> FALSE, grp_off |-> FALSE, sids |-> {}]

Bit(b) == IF b THEN 1 ELSE 0

\* the et_state of encode_events
EtState(ev) ==
    LET first == IF ev.fix_on THEN 4 ELSE IF ev.track_on THEN 2 ELSE 0
    IN  IF ev.track_off THEN 1 ELSE IF ev.fix_off THEN 2 ELSE first

\* an encoding that tests the group events before the block events
encode_events_group_first(ev) ==
    IF ev.ord_id # None THEN ev.ord_id + 1
    ELSE IF ev.grp_on THEN 100 + EtState(ev)
    ELSE IF ev.grp_off THEN 90 + EtState(ev)
    ELSE IF ev.blk_on THEN 128
    ELSE IF ev.blk_off THEN 127
    ELSE IF EtState(ev) > 0 THEN 110 + EtState(ev)
    ELSE IF ev.sids # {}
         THEN Bit(0 \in ev.sids) + Bit(1 \in ev.sids) * 2
              + Bit(2 \in ev.sids) * 4 + Bit(3 \in ev.sids) * 8 + 16
    ELSE 0

\* CkgRunState.encode_events()
encode_events(ev) ==
    IF ev.ord_id # None THEN ev.ord_id + 1
    ELSE IF ev.blk_on THEN 128
    ELSE IF ev.blk_off THEN 127
    ELSE IF ev.grp_on THEN 100 + EtState(ev)
    ELSE IF ev.grp_off THEN 90 + EtState(ev)
    ELSE IF EtState(ev) > 0 THEN 110 + EtState(ev)
    ELSE IF ev.sids # {}
         THEN Bit(0 \in ev.sids) + Bit(1 \in ev.sids) * 2
              + Bit(2 \in ev.sids) * 4 + Bit(3 \in ev.sids) * 8 + 16
    ELSE 0

\* a debouncing that keeps its count over a poll that agrees with the state
is_tracked_no_restart(et, raw, fps) ==
    LET cnt == IF raw.Tracked # et.lasttrackstatus THEN et.trackcount + 1
               ELSE et.trackcount
    IN  IF cnt * 1000 >= TRACK_PER * fps
        THEN [et EXCEPT !.trackcount = 0, !.lasttrackstatus = raw.Tracked]
        ELSE [et EXCEPT !.trackcount = cnt]

\* eyetracking.is_tracked(fps): the module state after the poll of a sample
is_tracked(et, raw, fps) ==
    LET cnt == IF raw.Tracked # et.lasttrackstatus THEN et.trackcount + 1 ELSE 0
    IN  IF cnt * 1000 >= TRACK_PER * fps
        THEN [et EXCEPT !.trackcount = 0, !.lasttrackstatus = raw.Tracked]
        ELSE [et EXCEPT !.trackcount = cnt]

\* a fixation state that follows the sample at once, without the period
is_fixated_at_once(et, raw, fps) ==
    [et EXCEPT !.fixcount = 0, !.lastfixstatus = raw.Tracked /\ raw.InRange]

\* eyetracking.is_fixated(fps): the module state after the poll of a sample
is_fixated(et, raw, fps) ==
    LET cur == raw.Tracked /\ raw.InRange
        cnt == IF cur # et.lastfixstatus THEN et.fixcount + 1 ELSE 0
    IN  IF cnt * 1000 >= FIX_PER * fps
        THEN [et EXCEPT !.fixcount = 0, !.lastfixstatus = cur]
        ELSE [et EXCEPT !.fixcount = cnt]

\* the samples GetLatestEyePosition can return
RawSamples ==
    {[Tracked |-> FALSE, InRange |-> FALSE],
     [Tracked |-> TRUE, InRange |-> FALSE],
     [Tracked |-> TRUE, InRange |-> TRUE]}

NoSample == [Tracked |-> FALSE, InRange |-> FALSE]

\* the cross update() draws: index into fix_crosses, or None
CrossDrawn(rs, tracked, fixated) ==
    IF ~rs.show_cross THEN None
    ELSE IF rs.disp_ops.eyetrack
         THEN IF fixated THEN 0 ELSE IF tracked THEN 1 ELSE 2
         ELSE 0  \* cross_times = ('Infinity', 1): always the first colour

\* self._old_code = self.encode_events
OldCodeAfter(code) == EncodeEventsMethod

\* an update that drops blk_on without scheduling the order id
OrdIdNextNever(ev, ord_id) == DefaultEvents

\* an update that clears the flags and leaves the shape ids pending
EventsAfterKeepSids(ev, ord_id) ==
    IF ev.blk_on THEN [DefaultEvents EXCEPT !.ord_id = ord_id,
                                            !.sids = ev.sids]
    ELSE [DefaultEvents EXCEPT !.sids = ev.sids]

\* the events left for the next frame: all cleared, but the order id
\* follows a blk_on
EventsAfter(ev, ord_id) ==
    IF ev.blk_on THEN [DefaultEvents EXCEPT !.ord_id = ord_id]
    ELSE DefaultEvents

\* a comparison that never lets the code 0 through
SendsEventCode(code, old_code) == code # 0 /\ code # old_code

\* self.encode_events() != self._old_code: update() calls trigger.send
SendsCode(code, old_code) == code # old_code

\* a failure test that counts the untracked frames as well
FixFailUntracked(fix_fail, tracked, fixated) == fix_fail \/ ~fixated

\* "Check for failure of trial": fix_fail after the polls of a frame
FixFailAfter(fix_fail, tracked, fixated) == fix_fail \/ (tracked /\ ~fixated)

\* an export that stops one frame before the target
TerminateEarly(rs, count, has_exit) ==
    IF rs.disp_ops.export
    THEN rs.terminate \/ (count + 1) * TimeDen >= rs.frames
    ELSE rs.terminate \/ has_exit

\* terminate as update() leaves it: the window was closed, or the export
\* has counted the frames it was to write
TerminateAfter(rs, count, has_exit) ==
    IF rs.disp_ops.export
    THEN rs.terminate \/ count * TimeDen >= rs.frames
    ELSE rs.terminate \/ has_exit

\* CkgRunState.update(): the run state, the eyetracking module and the
\* output of the frame, for the items drawn on the canvas since the last
\* clear and the inputs of this frame; sent: trigger.send is called with
\* the code
\* the reading of a running Timer, and the '' logged in place of a value
Elapsed == 0
NoStamp == None

\* update(), "Append time information to lists", with no entry for a frame
\* whose time is not logged
TimestampsLogtimeOnly(rs) ==
    IF rs.disp_ops.logtime THEN Append(rs.timestamps, Elapsed)
    ELSE rs.timestamps

\* update(), "Append time information to lists"
TimestampsAfter(rs) ==
    IF rs.disp_ops.logtime THEN Append(rs.timestamps, Elapsed)
    ELSE IF rs.disp_ops.logdur THEN Append(rs.timestamps, NoStamp)
    ELSE rs.timestamps

DurstampsAfter(rs) ==
    IF rs.disp_ops.logdur THEN Append(rs.durstamps, Elapsed)
    ELSE IF rs.disp_ops.logtime THEN Append(rs.durstamps, NoStamp)
    ELSE rs.durstamps

\* update(), "Log when triggers are sent"
TrigstampsAfter(rs, code) ==
    IF rs.disp_ops.logtime /\ code > 0 THEN Append(rs.trigstamps, code)
    ELSE Append(rs.trigstamps, NoStamp)

\* zip(*stamps) of log(): one row for each index all three lists have
Zipped(rs) ==
    LET n == CHOOSE m \in {Len(rs.timestamps), Len(rs.durstamps),
                           Len(rs.trigstamps)} :
                /\ m <= Len(rs.timestamps)
                /\ m <= Len(rs.durstamps)
                /\ m <= Len(rs.trigstamps)
    IN  [k \in 1..n |->
            <<rs.timestamps[k], rs.durstamps[k], rs.trigstamps[k]>>]

\* log(): the rows of stamps, written when the time or the duration of the
\* frames is logged
LogRows(rs) ==
    IF rs.disp_ops.logtime \/ rs.disp_ops.logdur THEN Zipped(rs) ELSE <<>>

update(rs, et, items, raw, has_exit) ==
    LET eye   == rs.disp_ops.eyetrack
        et1   == IF eye THEN is_tracked(et, raw, rs.fps) ELSE et
        et2   == IF eye THEN is_fixated(et1, raw, rs.fps) ELSE et
        trk   == IF eye THEN et2.lasttrackstatus ELSE rs.tracked
        fix   == IF eye THEN et2.lastfixstatus ELSE rs.fixated
        ev    == IF eye
                 THEN [rs.events EXCEPT
                         !.track_on = @ \/ (trk # rs.tracked /\ trk),
                         !.track_off = @ \/ (trk # rs.tracked /\ ~trk),
                         !.fix_on = @ \/ (fix # rs.fixated /\ fix),
                         !.fix_off = @ \/ (fix # rs.fixated /\ ~fix)]
                 ELSE rs.events
        code  == encode_events(ev)
        trig  == rs.disp_ops.trigser \/ rs.disp_ops.trigpar
        sent  == trig /\ SendsCode(code, rs.old_code)
        count == rs.count + 1
        out   == [index |-> rs.count,
                  width |-> IF rs.disp_ops.export
                            THEN numdigits(rs.frames - TimeDen) ELSE 0,
                  shapes |-> items,
                  cross |-> CrossDrawn(rs, trk, fix),
                  events |-> ev,
                  code |-> code,
                  sent |-> sent,
                  has_exit |-> has_exit]
        rs1   == [rs EXCEPT
                    !.old_tracked = IF eye THEN rs.tracked ELSE @,
                    !.tracked = trk,
                    !.old_fixated = IF eye THEN rs.fixated ELSE @,
                    !.fixated = fix,
                    !.fix_fail = IF eye THEN FixFailAfter(@, trk, fix) ELSE @,
                    !.timestamps = TimestampsAfter(rs),
                    !.durstamps = DurstampsAfter(rs),
                    !.old_code = IF trig THEN OldCodeAfter(code) ELSE @,
                    !.trigstamps = TrigstampsAfter(rs, code),
                    !.events = EventsAfter(ev, rs.ord_id),
                    !.count = count,
                    !.terminate = TerminateAfter(rs, count, has_exit)]
    IN  [rs |-> rs1, et |-> et2, out |-> out]

\* update() raises: numdigits(Infinity - 1) overflows in int()
UpdateRaises(rs) == rs.disp_ops.export /\ rs.frames = Infinity

(***************************************************************************)
(* CkgDisplayGroup and CkgWaitScreen                                       *)
(***************************************************************************)
\* len(CkgWaitScreen.DEFAULTS['infos'])
num_steps == 2

\* CkgDisplayGroup.duration()
duration(g) == TimeAdd(TimeAdd(g.pre, g.disp), g.post)

\* CkgDisplayGroup.reset()
GroupReset(g) ==
    [g EXCEPT !.flip_count = [k \in 1..Len(g.shapes) |-> 0],
              !.shapes = [k \in 1..Len(g.shapes) |-> BoardReset(g.shapes[k])]]

\* what CkgDisplayGroup.draw(runstate) puts on the canvas
GroupDraw(g, gid, rs) ==
    [gid |-> gid, label |-> None,
     models |-> [k \in 1..Len(g.shapes) |->
                    DrawModel(g.shapes[k], rs.disp_ops.photoburst)]]

\* nothing drawn but the cross
Blank == [gid |-> None, label |-> None, models |-> <<>>]

\* the flip counter of shape k as the first loop of update() leaves it
FlipCounted(g, k) == g.flip_count[k] + Bit(g.shapes[k].flipped)

\* the shape ids CkgDisplayGroup.update(runstate) adds to events['sids']
GroupSids(g, rs) ==
    IF rs.disp_ops.fpst > 0 /\ (~rs.disp_ops.freqcheck \/ rs.fc_send)
    THEN {k - 1 : k \in {j \in 1..Len(g.shapes) :
                            FlipCounted(g, j) >= rs.disp_ops.fpst}}
    ELSE {}

\* CkgDisplayGroup.update(runstate) raises in a shape's update
GroupUpdateRaises(g, rs) ==
    \E k \in 1..Len(g.shapes) : BoardUpdateRaises(g.shapes[k], rs.fps)

\* counters that go on counting past fpst
FlipCountNoReset(g, rs) ==
    [k \in 1..Len(g.shapes) |->
        IF rs.disp_ops.fpst > 0 THEN FlipCounted(g, k) ELSE g.flip_count[k]]

\* _flip_count after the first loop of CkgDisplayGroup.update(runstate)
FlipCountAfter(g, rs) ==
    [k \in 1..Len(g.shapes) |->
        IF rs.disp_ops.fpst > 0
        THEN IF FlipCounted(g, k) >= rs.disp_ops.fpst
             THEN 0 ELSE FlipCounted(g, k)
        ELSE g.flip_count[k]]

\* the group after CkgDisplayGroup.update(runstate)
GroupUpdate(g, rs) ==
    [g EXCEPT
       !.flip_count = FlipCountAfter(g, rs),
       !.shapes = [k \in 1..Len(g.shapes) |->
                      BoardUpdate(g.shapes[k], rs.fps)]]

\* the group after CkgDisplayGroup.update(runstate) was left by the
\* exception of a shape's update: the shapes before that one are updated
GroupUpdateRaised(g, rs) ==
    LET bad == CHOOSE k \in 1..Len(g.shapes) :
                 /\ BoardUpdateRaises(g.shapes[k], rs.fps)
                 /\ \A j \in 1..(k - 1) : ~BoardUpdateRaises(g.shapes[j], rs.fps)
    IN  [g EXCEPT
           !.flip_count = FlipCountAfter(g, rs),
           !.shapes = [k \in 1..Len(g.shapes) |->
                          IF k < bad THEN BoardUpdate(g.shapes[k], rs.fps)
                          ELSE IF k = bad THEN BoardUpdateRaised(g.shapes[k])
                          ELSE g.shapes[k]]]

\* self.groups[gid]: python counts a negative index from the end
GroupAt(gs, gid) == IF gid < 0 THEN Len(gs) + 1 + gid ELSE gid + 1

VARIABLES
    board,      \* a CheckerBoard driven on its own
    bfps,       \* the fps its update() is called with
    nupd,       \* number of update() calls since the last reset()
    braised,    \* the last update() raised
    proj,       \* the CkgProj: fps, pre, post, crosses, registered orders
    groups,     \* proj.groups, the CkgDisplayGroups and their shapes
    avail,      \* what start() finds: ports, eye tracker, calibration
    cmds,       \* the display()/export() calls still to be made
    runstate,   \* the CkgRunState of the run
    eyetracking,\* the module state of eyetracking.py
    waitscreen, \* the CkgWaitScreen of display()
    ctl,        \* where display()/export() stands: loop and counters
    frame,      \* the frame rendered by the last update()
    prev,       \* the frame rendered before that one
    files,      \* the image files written by the last export(), its order
                \* and its repeats
    line,       \* the value last sent to the trigger port
    trigger,    \* the module state of trigger.py: which ports are open
    priority,   \* the priority of the process
    hist        \* history the claims refer to: in a run, the debounced eye
                \* states of the frames of the disp interval being displayed;
                \* of a group driven on its own, the flips counted since
                \* its reset(); of the eye tracker polled on its own, the
                \* outcome of the latest polls; of a run that is made
                \* twice, the same run made in a new process

boardvars == <<board, bfps, nupd, braised>>

runvars == <<proj, groups, avail, cmds, runstate, eyetracking, waitscreen,
             ctl, frame, prev, files, line, trigger, priority, hist>>

vars == <<board, bfps, nupd, braised, proj, groups, avail, cmds, runstate,
          eyetracking, waitscreen, ctl, frame, prev, files, line, trigger,
          priority, hist>>

(***************************************************************************)
(* CkgProj.display() and CkgProj.export()                                  *)
(***************************************************************************)
\* CkgProj.DEFAULTS['disp_ops'], the options the model follows
DefaultDispOps ==
    [repeats |-> 1, waitless |-> FALSE, trigser |-> FALSE, trigpar |-> FALSE,
     fpst |-> 0, freqcheck |-> FALSE, photoburst |-> FALSE,
     eyetrack |-> FALSE, tryagain |-> 0, trybreak |-> None,
     export |-> FALSE, expo_dur |-> None, priority |-> None,
     logtime |-> FALSE, logdur |-> FALSE, nolog |-> FALSE]

NoFrame ==
    [index |-> None, width |-> 0, shapes |-> Blank, cross |-> None,
     events |-> DefaultEvents, code |-> 0, sent |-> FALSE,
     has_exit |-> FALSE]

\* CkgRunState.__init__ followed by the assignments of start()
NewRunState(fps, ops, order) ==
    [fps |-> fps, disp_ops |-> ops, order |-> order,
     events |-> DefaultEvents, gids |-> <<>>, fails |-> <<>>,
     add_gids |-> <<>>,
     timestamps |-> <<>>, durstamps |-> <<>>, trigstamps |-> <<>>,
     count |-> 0, old_code |-> 0, ord_id |-> None, terminate |-> FALSE,
     fc_send |-> FALSE, show_cross |-> TRUE,
     fixated |-> FALSE, old_fixated |-> FALSE,
     tracked |-> FALSE, old_tracked |-> FALSE,
     fix_fail |-> FALSE, true_fail |-> FALSE,
     frames |-> None, window |-> FALSE, fbo |-> FALSE]

\* no export has been made
\* rows: the rows of stamps log() has written to the log file
NoFiles == [order |-> <<>>, repeats |-> 0, imgs |-> <<>>, rows |-> <<>>]

\* priority.set(level): the levels of the process priority
NORMAL_PRIORITY == 1
HIGH_PRIORITY == 2

\* no call is running; started: runstate.start() has returned; err: the
\* exception that left the call
IdleCtl ==
    [pc |-> "idle", i |-> 0, n |-> 0, b |-> 0, k |-> None, count |-> 0,
     ret |-> "main", gid |-> None, start |-> 0, started |-> FALSE,
     err |-> ""]

\* trigger.SERPORT and trigger.PARPORT are None
PortsClosed == [SERPORT |-> FALSE, PARPORT |-> FALSE]

\* the module state of eyetracking.py and of the tracker behind it
EyetrackingIdle ==
    [lasttrackstatus |-> FALSE, trackcount |-> 0,
     lastfixstatus |-> FALSE, fixcount |-> 0, Tracking |-> FALSE]

\* no run is in progress
IdleRun ==
    /\ proj = [fps |-> 1, pre |-> 0, post |-> 0, pre_cross |-> <<>>,
               post_cross |-> <<>>, orders |-> <<>>]
    /\ groups = <<>>
    /\ avail = [serial |-> FALSE, parallel |-> FALSE, eyetracking |-> FALSE,
                calibrated |-> FALSE, expo_dir |-> FALSE, priority |-> FALSE]
    /\ cmds = <<>>
    /\ runstate = NewRunState(1, DefaultDispOps, <<>>)
    /\ eyetracking = EyetrackingIdle
    /\ waitscreen = [steps_done |-> 0]
    /\ ctl = IdleCtl
    /\ frame = NoFrame
    /\ prev = NoFrame
    /\ files = NoFiles
    /\ line = 0
    /\ trigger = PortsClosed
    /\ priority = NORMAL_PRIORITY
    /\ hist = <<>>

\* a resolution that prefers the registered orders to the argument
ResolvedOrdersRegisteredFirst(arg) ==
    IF Len(proj.orders) > 0
    THEN {proj.orders[k] : k \in 1..Len(proj.orders)}
    ELSE IF Len(arg) > 0 THEN {arg}
         ELSE {[k \in 1..Len(groups) |-> k - 1]}

\* the orders display() and export() can resolve for the order argument
ResolvedOrders(arg) ==
    IF Len(arg) > 0 THEN {arg}
    ELSE IF Len(proj.orders) > 0
         THEN {proj.orders[k] : k \in 1..Len(proj.orders)}
         ELSE {[k \in 1..Len(groups) |-> k - 1]}

\* self.orders.index(order), or None if the order is not registered
OrderIndex(order) ==
    LET hits == {k \in 1..Len(proj.orders) : proj.orders[k] = order}
    IN  IF hits = {} THEN None
        ELSE (CHOOSE k \in hits : \A j \in hits : k <= j) - 1

\* a start() that goes on to the window with an uncalibrated subject
StartErrorUncalibrated(kw) ==
    IF kw.no_ops THEN "ValueError"
    ELSE IF kw.ops.export /\ ~avail.expo_dir THEN "IOError"
    ELSE IF kw.ops.trigser /\ ~avail.serial THEN "NotImplementedError"
    ELSE IF kw.ops.trigpar /\ ~avail.parallel THEN "NotImplementedError"
    ELSE IF kw.ops.eyetrack /\ ~avail.eyetracking THEN "NotImplementedError"
    ELSE ""

\* the exception CkgRunState.start() raises, "" if it returns: the checks
\* in the order start() makes them
StartError(kw) ==
    IF kw.no_ops THEN "ValueError"
    ELSE IF kw.ops.export /\ ~avail.expo_dir THEN "IOError"
    ELSE IF kw.ops.trigser /\ ~avail.serial THEN "NotImplementedError"
    ELSE IF kw.ops.trigpar /\ ~avail.parallel THEN "NotImplementedError"
    ELSE IF kw.ops.eyetrack /\ ~avail.eyetracking THEN "NotImplementedError"
    ELSE IF kw.ops.eyetrack /\ ~avail.calibrated THEN "EyetrackingError"
    ELSE ""

\* start() raises before the run begins
StartRaises(kw) == StartError(kw) # ""

\* trigger.init(trigser, trigpar) has run when start() reaches the
\* initialization of the eye tracker: the ports start() has opened
PortsAfterStart(kw) ==
    IF kw.no_ops \/ (kw.ops.export /\ ~avail.expo_dir)
       \/ (kw.ops.trigser /\ ~avail.serial)
       \/ (kw.ops.trigpar /\ ~avail.parallel)
    THEN trigger
    ELSE [SERPORT |-> kw.ops.trigser, PARPORT |-> kw.ops.trigpar]

\* "Set process priority": priority.set is tried, its failure passed over
PriorityAfterStart(ops) ==
    IF ops.priority # None /\ avail.priority THEN ops.priority ELSE priority

RECURSIVE SumDur(_, _)
\* sum([self.groups[i].duration() for i in order])
SumDur(order, k) ==
    IF k > Len(order) THEN 0
    ELSE TimeAdd(duration(groups[GroupAt(groups, order[k])]),
                 SumDur(order, k + 1))

\* the frames of export(), in units of 1/TimeDen frame
ExportFrames(order, ops) ==
    LET gdur == IF SumDur(order, 1) = Infinity THEN Infinity
                ELSE SumDur(order, 1) * ops.repeats
        total == TimesFps(TimeAdd(TimeAdd(proj.pre, gdur), proj.post),
                          proj.fps)
    IN  TimeMin(total, TimesFps(ops.expo_dur, proj.fps))

\* export() raises after start(): expo_dur is None, or too many frames
ExportRaises(order, kw) ==
    \/ kw.ops.expo_dur = None
    \/ /\ ~kw.force
       /\ \/ ExportFrames(order, kw.ops) = Infinity
          \/ ExportFrames(order, kw.ops) > MAX_EXPORT_FRAMES * TimeDen

\* the exception export() raises then: None * fps, int(Infinity) in the
\* message, or the FrameOverflowError itself
ExportError(order, kw) ==
    IF kw.ops.expo_dur = None THEN "TypeError"
    ELSE IF ExportFrames(order, kw.ops) = Infinity THEN "OverflowError"
    ELSE "FrameOverflowError"

\* the call is left by the exception e
Raised(e) == [ctl EXCEPT !.pc = "raised", !.err = e]

\* eyetracking.stop() and eyetracking.start() between the blocks of a run:
\* start() raises if the tracker no longer reports a calibrated subject
Restarted(et, calibrated) == [et EXCEPT !.Tracking = calibrated]

\* display(**keywords) or export(**keywords) up to the first loop
StartRun ==
    /\ ctl.pc = "idle"
    /\ cmds # <<>>
    /\ LET kw == Head(cmds) IN
       \E order \in ResolvedOrders(kw.order) :
         LET ops == [kw.ops EXCEPT
                       !.trybreak = IF kw.ops.eyetrack /\ @ = None
                                    THEN Len(order) ELSE @]
             rs  == [NewRunState(proj.fps, ops, order) EXCEPT
                       !.window = ~ops.export, !.fbo = ops.export]
             go  == [IdleCtl EXCEPT !.pc = "proj_pre", !.started = TRUE]
         IN  /\ frame' = NoFrame
             /\ prev' = NoFrame
             /\ hist' = <<>>
             /\ files' = IF kw.ops.export
                         THEN [order |-> order, repeats |-> kw.ops.repeats,
                               imgs |-> <<>>, rows |-> files.rows]
                         ELSE files
             /\ trigger' = PortsAfterStart(kw)
             /\ IF StartRaises(kw)
                THEN /\ runstate' = NewRunState(proj.fps, kw.ops, order)
                     /\ ctl' = [IdleCtl EXCEPT !.pc = "raised",
                                               !.err = StartError(kw)]
                     /\ UNCHANGED <<line, priority, eyetracking>>
                ELSE /\ line' = IF kw.ops.trigpar THEN 0 ELSE line
                     /\ priority' = PriorityAfterStart(kw.ops)
                     /\ eyetracking' = [eyetracking EXCEPT
                                          !.Tracking = @ \/ kw.ops.eyetrack]
                     /\ IF kw.ops.export
                        THEN IF ExportRaises(order, kw)
                             THEN /\ runstate' = rs
                                  /\ ctl' = [go EXCEPT
                                               !.pc = "raised",
                                               !.err = ExportError(order, kw)]
                             ELSE /\ runstate' =
                                       [rs EXCEPT
                                          !.frames = ExportFrames(order, ops)]
                                  /\ ctl' = go
                        ELSE /\ runstate' =
                                  [rs EXCEPT !.ord_id = OrderIndex(order)]
                             /\ ctl' = go
    /\ waitscreen' = [steps_done |-> 0]
    /\ UNCHANGED <<boardvars, proj, groups, avail, cmds>>

\* one runstate.update() on the canvas holding items, by the run state rs0
\* the caller has prepared; the loop then stands at ctl1
Frame(items, rs0, ctl1) ==
    IF UpdateRaises(rs0)
    THEN /\ runstate' = rs0
         /\ ctl' = Raised("OverflowError")
         /\ UNCHANGED <<eyetracking, frame, prev, files, line>>
    ELSE \E raw \in IF rs0.disp_ops.eyetrack THEN RawSamples ELSE {NoSample},
            has_exit \in IF rs0.disp_ops.export THEN {FALSE} ELSE BOOLEAN :
           LET r == update(rs0, eyetracking, items, raw, has_exit)
           IN  /\ runstate' = r.rs
               /\ eyetracking' = r.et
               /\ frame' = r.out
               /\ prev' = frame
               /\ files' = IF rs0.disp_ops.export
                           THEN [files EXCEPT !.imgs = Append(@, r.out)]
                           ELSE files
               /\ line' = IF r.out.sent THEN r.out.code ELSE line
               /\ ctl' = ctl1

NextCount == [ctl EXCEPT !.count = @ + 1]

\* "Count through pre": one frame of the project's pre interval
ProjPre ==
    /\ ctl.pc = "proj_pre"
    /\ ctl.count < RangeLen(proj.pre, proj.fps)
    /\ ~runstate.terminate
    /\ Frame(Blank,
             IF runstate.disp_ops.export THEN runstate
             ELSE [runstate EXCEPT !.show_cross =
                      CrossAt(proj.pre_cross, ctl.count, runstate.fps, @)],
             NextCount)
    /\ UNCHANGED <<boardvars, proj, groups, avail, trigger, priority, hist,
                   cmds, waitscreen>>

\* the pre loop of the project is left
ProjPreDone ==
    /\ ctl.pc = "proj_pre"
    /\ ctl.count >= RangeLen(proj.pre, proj.fps) \/ runstate.terminate
    /\ ctl' = [ctl EXCEPT !.pc = "repeat", !.i = 0]
    /\ UNCHANGED <<boardvars, proj, groups, avail, trigger, priority, hist,
                   cmds, runstate,
                   eyetracking, waitscreen, frame, prev, files, line>>

\* "Loop through repeats": the head of the loop
RepeatNext ==
    /\ ctl.pc = "repeat"
    /\ IF ctl.i < runstate.disp_ops.repeats
       THEN IF runstate.disp_ops.export
            THEN /\ ctl' = [ctl EXCEPT !.pc = "order", !.n = 0]
                 /\ UNCHANGED <<runstate, waitscreen, eyetracking>>
            ELSE \E calibrated \in IF runstate.disp_ops.eyetrack
                                   THEN BOOLEAN ELSE {TRUE} :
                 /\ eyetracking' = IF runstate.disp_ops.eyetrack
                                   THEN Restarted(eyetracking, calibrated)
                                   ELSE eyetracking
                 /\ IF ~calibrated
                    THEN /\ ctl' = Raised("EyetrackingError")
                         /\ UNCHANGED <<runstate, waitscreen>>
                    ELSE IF ~runstate.disp_ops.waitless
                    THEN /\ waitscreen' = [steps_done |-> 0]
                         /\ ctl' = [ctl EXCEPT !.pc = "wait", !.ret = "blk"]
                         /\ UNCHANGED runstate
                    ELSE /\ runstate' =
                              [runstate EXCEPT !.events.blk_on = TRUE]
                         /\ ctl' = [ctl EXCEPT !.pc = "order", !.n = 0]
                         /\ UNCHANGED waitscreen
       ELSE IF runstate.disp_ops.export
            THEN /\ ctl' = [ctl EXCEPT !.pc = "proj_post", !.count = 0]
                 /\ UNCHANGED <<runstate, waitscreen, eyetracking>>
            ELSE /\ runstate' = [runstate EXCEPT !.fc_send =
                                    IF runstate.disp_ops.freqcheck
                                    THEN FALSE ELSE @]
                 /\ ctl' = [ctl EXCEPT !.pc = "added", !.b = 0, !.k = None]
                 /\ UNCHANGED <<waitscreen, eyetracking>>
    /\ UNCHANGED <<boardvars, proj, groups, avail, trigger, priority, hist,
                   cmds, frame, prev, files, line>>

\* CkgWaitScreen.display: one frame of the wait screen
WaitFrame ==
    /\ ctl.pc = "wait"
    /\ waitscreen.steps_done < num_steps
    /\ ~runstate.terminate
    /\ runstate.count < MaxCount
    /\ \E key \in BOOLEAN :
         waitscreen' = [steps_done |-> waitscreen.steps_done + Bit(key)]
    /\ Frame([Blank EXCEPT !.label = waitscreen.steps_done], runstate, ctl)
    /\ UNCHANGED <<boardvars, proj, groups, avail, trigger, priority, hist,
                   cmds>>

\* the bookkeeping of display() after a group of the main loop was played
Played(rs, gid) ==
    IF rs.terminate THEN rs
    ELSE [rs EXCEPT
            !.gids = Append(@, gid),
            !.fails = IF rs.disp_ops.eyetrack
                      THEN Append(@, rs.true_fail) ELSE @,
            !.add_gids = IF /\ rs.disp_ops.eyetrack
                            /\ rs.true_fail
                            /\ Len(@) < rs.disp_ops.tryagain
                         THEN Append(@, gid) ELSE @]

\* a retry that queues the group again when it fails again
PlayedAgainQueued(rs, gid) == Played(rs, gid)

\* the bookkeeping of display() after an added group was played
PlayedAgain(rs, gid) ==
    IF rs.terminate THEN rs
    ELSE [rs EXCEPT
            !.gids = Append(@, gid),
            !.fails = IF rs.disp_ops.eyetrack
                      THEN Append(@, rs.true_fail) ELSE @]

\* CkgWaitScreen.display returns to display()
WaitDone ==
    /\ ctl.pc = "wait"
    /\ waitscreen.steps_done >= num_steps \/ runstate.terminate
    /\ IF ctl.ret = "blk"
       THEN /\ runstate' = [runstate EXCEPT !.events.blk_on = TRUE]
            /\ ctl' = [ctl EXCEPT !.pc = "order", !.n = 0]
       ELSE IF ctl.ret = "add"
       THEN /\ runstate' = [runstate EXCEPT !.events.blk_on = TRUE]
            /\ ctl' = [ctl EXCEPT !.pc = "added", !.k = 0]
       ELSE /\ runstate' = Played(runstate, -1)
            /\ ctl' = [ctl EXCEPT !.pc = "order", !.n = @ + 1]
    /\ UNCHANGED <<boardvars, proj, groups, avail, trigger, priority, hist,
                   cmds, eyetracking,
                   waitscreen, frame, prev, files, line>>

\* the flag display() sets for freqcheck before group n of repeat i
FcSend(rs, i, n) ==
    IF rs.disp_ops.freqcheck
    THEN \/ i = 0 /\ n = 0
         \/ i = rs.disp_ops.repeats - 1 /\ n = Len(rs.order) - 1
         \/ i = rs.disp_ops.repeats \div 2 /\ n = Len(rs.order) \div 2
    ELSE rs.fc_send

\* CkgDisplayGroup.display(runstate) is entered for group gid
EnterGroup(gid, ret) ==
    /\ groups' = [groups EXCEPT ![GroupAt(groups, gid)] = GroupReset(@)]
    /\ ctl' = [ctl EXCEPT !.pc = "grp_pre", !.count = 0, !.ret = ret,
                          !.gid = gid, !.start = runstate.count]
    /\ hist' = <<>>

\* "Loop through display groups": the head of the loop over the order
OrderNext ==
    /\ ctl.pc = "order"
    /\ IF ctl.n < Len(runstate.order)
       THEN LET gid == runstate.order[ctl.n + 1] IN
            IF runstate.disp_ops.export
            THEN IF gid # -1
                 THEN /\ EnterGroup(gid, "main")
                      /\ UNCHANGED <<runstate, waitscreen>>
                 ELSE /\ ctl' = [ctl EXCEPT !.n = @ + 1]
                      /\ UNCHANGED <<runstate, waitscreen, groups, hist>>
            ELSE /\ runstate' = [runstate EXCEPT
                                   !.fc_send = FcSend(runstate, ctl.i, ctl.n)]
                 /\ IF gid = -1
                    THEN /\ waitscreen' = [steps_done |-> 0]
                         /\ ctl' = [ctl EXCEPT !.pc = "wait", !.ret = "grp"]
                         /\ UNCHANGED <<groups, hist>>
                    ELSE /\ EnterGroup(gid, "main")
                         /\ UNCHANGED waitscreen
       ELSE /\ runstate' = IF runstate.disp_ops.export THEN runstate
                           ELSE [runstate EXCEPT !.events.blk_off = TRUE]
            /\ ctl' = [ctl EXCEPT !.pc = "repeat", !.i = @ + 1]
            /\ UNCHANGED <<waitscreen, groups, hist>>
    /\ UNCHANGED <<boardvars, proj, avail, trigger, priority, cmds, eyetracking,
                   frame, prev, files, line>>

\* the group CkgDisplayGroup.display is running for
Grp == groups[GroupAt(groups, ctl.gid)]

\* one frame of the pre interval of a group
GrpPre ==
    /\ ctl.pc = "grp_pre"
    /\ ctl.count < RangeLen(Grp.pre, runstate.fps)
    /\ ~runstate.terminate
    /\ Frame(Blank,
             [runstate EXCEPT !.show_cross =
                 CrossAt(Grp.pre_cross, ctl.count, runstate.fps, @)],
             NextCount)
    /\ UNCHANGED <<boardvars, proj, groups, avail, trigger, priority, hist,
                   cmds, waitscreen>>

\* the pre loop is left: the group comes on; range(disp * fps) raises
\* OverflowError for disp = Infinity
GrpPreDone ==
    /\ ctl.pc = "grp_pre"
    /\ ctl.count >= RangeLen(Grp.pre, runstate.fps) \/ runstate.terminate
    /\ runstate' = [runstate EXCEPT
                      !.events.grp_on = TRUE,
                      !.fix_fail = IF runstate.disp_ops.eyetrack
                                   THEN FALSE ELSE @,
                      !.true_fail = IF runstate.disp_ops.eyetrack
                                    THEN FALSE ELSE @]
    /\ ctl' = IF Grp.disp = Infinity THEN Raised("OverflowError")
              ELSE [ctl EXCEPT !.pc = "grp_disp", !.count = 0]
    /\ UNCHANGED <<boardvars, proj, groups, avail, trigger, priority, hist,
                   cmds, eyetracking,
                   waitscreen, frame, prev, files, line>>

\* one frame of the disp interval: draw, update the group, update the run
GrpDisp ==
    /\ ctl.pc = "grp_disp"
    /\ ctl.count < RangeLen(Grp.disp, runstate.fps)
    /\ ~runstate.terminate
    /\ IF GroupUpdateRaises(Grp, runstate)
       THEN /\ runstate' = [runstate EXCEPT
                              !.events.sids = @ \cup GroupSids(Grp, runstate)]
            /\ groups' = [groups EXCEPT ![GroupAt(groups, ctl.gid)] =
                             GroupUpdateRaised(@, runstate)]
            /\ ctl' = Raised("DivisionByZero")
            /\ UNCHANGED <<eyetracking, frame, prev, files, line, hist>>
       ELSE /\ groups' = [groups EXCEPT ![GroupAt(groups, ctl.gid)] =
                             GroupUpdate(@, runstate)]
            /\ Frame(GroupDraw(Grp, GroupAt(groups, ctl.gid) - 1, runstate),
                     [runstate EXCEPT
                        !.events.sids = @ \cup GroupSids(Grp, runstate)],
                     NextCount)
            /\ hist' = IF runstate.disp_ops.eyetrack /\ ctl'.pc # "raised"
                       THEN Append(hist, [tracked |-> runstate'.tracked,
                                          fixated |-> runstate'.fixated])
                       ELSE hist
    /\ UNCHANGED <<boardvars, proj, avail, trigger, priority, cmds, waitscreen>>

\* the disp loop is left: the group goes off
GrpDispDone ==
    /\ ctl.pc = "grp_disp"
    /\ ctl.count >= RangeLen(Grp.disp, runstate.fps) \/ runstate.terminate
    /\ runstate' = [runstate EXCEPT
                      !.events.grp_off = TRUE,
                      !.true_fail = IF runstate.disp_ops.eyetrack
                                    THEN @ \/ runstate.fix_fail ELSE @]
    /\ ctl' = [ctl EXCEPT !.pc = "grp_post", !.count = 0]
    /\ UNCHANGED <<boardvars, proj, groups, avail, trigger, priority, hist,
                   cmds, eyetracking,
                   waitscreen, frame, prev, files, line>>

\* one frame of the post interval of a group
GrpPost ==
    /\ ctl.pc = "grp_post"
    /\ ctl.count < RangeLen(Grp.post, runstate.fps)
    /\ ~runstate.terminate
    /\ Frame(Blank,
             [runstate EXCEPT !.show_cross =
                 CrossAt(Grp.post_cross, ctl.count, runstate.fps, @)],
             NextCount)
    /\ UNCHANGED <<boardvars, proj, groups, avail, trigger, priority, hist,
                   cmds, waitscreen>>

\* CkgDisplayGroup.display returns to display() or export()
GrpPostDone ==
    /\ ctl.pc = "grp_post"
    /\ ctl.count >= RangeLen(Grp.post, runstate.fps) \/ runstate.terminate
    /\ IF runstate.disp_ops.export
       THEN /\ ctl' = [ctl EXCEPT !.pc = "order", !.n = @ + 1]
            /\ UNCHANGED runstate
       ELSE IF ctl.ret = "main"
       THEN /\ runstate' = Played(runstate, ctl.gid)
            /\ ctl' = [ctl EXCEPT !.pc = "order", !.n = @ + 1]
       ELSE /\ runstate' = PlayedAgain(runstate, ctl.gid)
            /\ ctl' = [ctl EXCEPT !.pc = "added", !.k = @ + 1]
    /\ UNCHANGED <<boardvars, proj, groups, avail, trigger, priority, hist,
                   cmds, eyetracking,
                   waitscreen, frame, prev, files, line>>

\* "Loop through added groups": the heads of the loops over the blocks
\* grouper(add_gids, trybreak) cuts and over the group ids of a block
AddedNext ==
    /\ ctl.pc = "added"
    /\ LET tb  == runstate.disp_ops.trybreak
           pos == ctl.b * tb + ctl.k + 1
       IN
       IF ctl.k = None
       THEN IF /\ runstate.disp_ops.eyetrack
               /\ tb > 0
               /\ ctl.b * tb < Len(runstate.add_gids)
            THEN \E calibrated \in BOOLEAN :
                 /\ eyetracking' = Restarted(eyetracking, calibrated)
                 /\ IF ~calibrated
                    THEN /\ ctl' = Raised("EyetrackingError")
                         /\ UNCHANGED <<runstate, waitscreen, groups, hist>>
                    ELSE IF ~runstate.disp_ops.waitless
                    THEN /\ waitscreen' = [steps_done |-> 0]
                         /\ ctl' = [ctl EXCEPT !.pc = "wait", !.ret = "add"]
                         /\ UNCHANGED <<runstate, groups, hist>>
                    ELSE /\ runstate' =
                              [runstate EXCEPT !.events.blk_on = TRUE]
                         /\ ctl' = [ctl EXCEPT !.k = 0]
                         /\ UNCHANGED <<waitscreen, groups, hist>>
            ELSE /\ ctl' = [ctl EXCEPT !.pc = "proj_post", !.count = 0]
                 /\ UNCHANGED <<runstate, waitscreen, groups, hist,
                                eyetracking>>
       ELSE IF ctl.k < tb
       THEN IF pos <= Len(runstate.add_gids)
            THEN /\ EnterGroup(runstate.add_gids[pos], "add")
                 /\ UNCHANGED <<runstate, waitscreen, eyetracking>>
            ELSE /\ ctl' = [ctl EXCEPT !.k = @ + 1]
                 /\ UNCHANGED <<runstate, waitscreen, groups, hist,
                                eyetracking>>
       ELSE /\ runstate' = [runstate EXCEPT !.events.blk_off = TRUE]
            /\ ctl' = [ctl EXCEPT !.b = @ + 1, !.k = None]
            /\ UNCHANGED <<waitscreen, groups, hist, eyetracking>>
    /\ UNCHANGED <<boardvars, proj, avail, trigger, priority, cmds,
                   frame, prev, files, line>>

\* "Count through post": one frame of the project's post interval
ProjPost ==
    /\ ctl.pc = "proj_post"
    /\ ctl.count < RangeLen(proj.post, proj.fps)
    /\ ~runstate.terminate
    /\ Frame(Blank,
             IF runstate.disp_ops.export THEN runstate
             ELSE [runstate EXCEPT !.show_cross =
                      CrossAt(proj.post_cross, ctl.count, runstate.fps, @)],
             NextCount)
    /\ UNCHANGED <<boardvars, proj, groups, avail, trigger, priority, hist,
                   cmds, waitscreen>>

\* trigger.quit(trigser, trigpar) raises: set_null() calls set_state with
\* one argument of the two it takes
QuitRaises(ops) == ops.trigser \/ ops.trigpar

\* the post loop is left: runstate.stop(), and the call returns, or is
\* left by the exception of trigger.quit
ProjPostDone ==
    /\ ctl.pc = "proj_post"
    /\ ctl.count >= RangeLen(proj.post, proj.fps) \/ runstate.terminate
    /\ eyetracking' = IF runstate.disp_ops.eyetrack
                      THEN [eyetracking EXCEPT !.Tracking = FALSE]
                      ELSE eyetracking
    /\ runstate' = [runstate EXCEPT !.fbo = FALSE, !.window = FALSE]
    /\ IF QuitRaises(runstate.disp_ops)
       THEN /\ ctl' = Raised("TypeError")
            /\ UNCHANGED <<cmds, priority>>
            /\ files' = files
       ELSE /\ ctl' = [ctl EXCEPT !.pc = "idle"]
            /\ cmds' = Tail(cmds)
            /\ priority' = IF avail.priority THEN NORMAL_PRIORITY
                           ELSE priority
            /\ files' = IF runstate.disp_ops.export
                            \/ runstate.disp_ops.nolog
                         THEN files
                         ELSE [files EXCEPT !.rows = LogRows(runstate)]
    /\ UNCHANGED <<boardvars, proj, groups, avail, waitscreen, frame, prev,
                   line, trigger, hist>>

Next ==
    \/ StartRun
    \/ ProjPre \/ ProjPreDone
    \/ RepeatNext
    \/ WaitFrame \/ WaitDone
    \/ OrderNext
    \/ GrpPre \/ GrpPreDone
    \/ GrpDisp \/ GrpDispDone
    \/ GrpPost \/ GrpPostDone
    \/ AddedNext
    \/ ProjPost \/ ProjPostDone

(***************************************************************************)
(* The projects and the calls the model is run on                          *)
(***************************************************************************)
DefaultCross == <<(<<0, TRUE>>)>>

\* CkgDisplayGroup(pre, disp, post) with its shapes appended
MkGroup(pre, disp, post, shapes) ==
    [pre |-> pre, disp |-> disp, post |-> post,
     pre_cross |-> DefaultCross, post_cross |-> DefaultCross,
     shapes |-> shapes, flip_count |-> <<>>]

MkProj(fps, pre, post, pre_cross, orders) ==
    [fps |-> fps, pre |-> pre, post |-> post, pre_cross |-> pre_cross,
     post_cross |-> DefaultCross, orders |-> orders]

AllAvailable ==
    [serial |-> TRUE, parallel |-> TRUE, eyetracking |-> TRUE,
     calibrated |-> TRUE, expo_dir |-> TRUE, priority |-> TRUE]

\* display(order=..., **ops) and export(order=..., force=..., **ops)
Display(order, ops) ==
    [order |-> order, force |-> FALSE, no_ops |-> FALSE,
     ops |-> [ops EXCEPT !.export = FALSE]]

Export(order, force, ops) ==
    [order |-> order, force |-> force, no_ops |-> FALSE,
     ops |-> [ops EXCEPT !.export = TRUE]]

\* runstate.start() of a run state whose disp_ops were never set
BareStart(cmd) == [cmd EXCEPT !.no_ops = TRUE]

TrigOps == [DefaultDispOps EXCEPT !.waitless = TRUE, !.trigpar = TRUE]

\* one group of any timing, displayed or exported once
TimingRuns ==
    {[proj |-> MkProj(fps, 0, 0, DefaultCross, <<>>),
      groups |-> <<MkGroup(pre, disp, post, shapes)>>,
      avail |-> AllAvailable,
      cmds |-> <<cmd>>] :
        fps \in 1..MaxFps,
        pre \in 0..MaxDur, disp \in 0..MaxDur \cup {Infinity},
        post \in 0..MaxDur,
        shapes \in {<<>>, <<NewBoard(1, 0)>>},
        cmd \in {Display(<<>>, [TrigOps EXCEPT !.fpst = 1])}
                \cup {Export(<<>>, force, [DefaultDispOps EXCEPT
                                              !.expo_dur = dur]) :
                        force \in BOOLEAN, dur \in {None, Infinity, TimeDen}}}

TwoGroups ==
    <<MkGroup(1, 1, 0, <<NewBoard(1, 0)>>), MkGroup(0, 2, 1, <<>>)>>

\* a project of two groups, exported and then displayed, or displayed with
\* its wait screens
SequenceRuns ==
    {[proj |-> MkProj(MaxFps, pre, post, <<(<<0, show>>)>>, orders),
      groups |-> TwoGroups,
      avail |-> AllAvailable,
      cmds |-> calls] :
        pre \in {0, 1}, post \in {0, 1}, show \in BOOLEAN,
        orders \in {<<>>, <<(<<1, 0>>), (<<0, 1>>)>>},
        calls \in
          UNION {
            {<<Export(order, FALSE,
                      [DefaultDispOps EXCEPT !.repeats = rep,
                                             !.expo_dur = Infinity]),
               Display(order, [TrigOps EXCEPT !.repeats = rep])>>,
             <<Display(order, [DefaultDispOps EXCEPT !.repeats = rep,
                                                     !.trigpar = TRUE])>>} :
            order \in {<<>>, <<1>>, <<0, -1>>}, rep \in 1..2}}

\* a project of one group displayed with eye tracking, alone or followed by
\* a wait screen
EyeRuns ==
    {[proj |-> MkProj(MaxFps, 0, 0, DefaultCross, <<>>),
      groups |-> <<MkGroup(0, 2, 1, <<NewBoard(1, 0)>>)>>,
      avail |-> [AllAvailable EXCEPT !.calibrated = cal],
      cmds |-> <<Display(order, [TrigOps EXCEPT !.eyetrack = TRUE,
                                                !.fpst = 1,
                                                !.tryagain = again])>>] :
        cal \in BOOLEAN, again \in 0..2, order \in {<<>>, <<0, -1>>}}

\* a project of one group started with any of its optional subsystems
\* enabled, on a machine where any of them may be missing
PreflightRuns ==
    {[proj |-> MkProj(1, 0, 0, DefaultCross, <<>>),
      groups |-> <<MkGroup(0, 1, 0, <<>>)>>,
      avail |-> [serial |-> ser, parallel |-> par, eyetracking |-> eye,
                 calibrated |-> cal, expo_dir |-> dir, priority |-> pri],
      cmds |-> <<cmd>>] :
        ser \in BOOLEAN, par \in BOOLEAN, eye \in BOOLEAN, cal \in BOOLEAN,
        dir \in BOOLEAN, pri \in BOOLEAN,
        cmd \in UNION {
            {Display(<<>>, ops), BareStart(Display(<<>>, ops)),
             Export(<<>>, FALSE, [ops EXCEPT !.expo_dur = TimeDen])} :
            ops \in {[DefaultDispOps EXCEPT !.waitless = TRUE,
                                            !.trigser = s, !.trigpar = p,
                                            !.eyetrack = e,
                                            !.priority = HIGH_PRIORITY] :
                        s \in BOOLEAN, p \in BOOLEAN, e \in BOOLEAN}}}

\* a project of one group of MAX_EXPORT_FRAMES frames, or of one frame
\* more, exported with and without force
LongRuns ==
    {[proj |-> MkProj(1, 0, 0, DefaultCross, <<>>),
      groups |-> <<MkGroup(0, n * TimeDen, 0, <<>>)>>,
      avail |-> AllAvailable,
      cmds |-> <<Export(<<>>, force, [DefaultDispOps EXCEPT
                                        !.expo_dur = Infinity])>>] :
        n \in {MAX_EXPORT_FRAMES, MAX_EXPORT_FRAMES + 1}, force \in BOOLEAN}

\* a display or an export with the times of its frames logged
LogRuns ==
    {[proj |-> MkProj(fps, pre, 1, DefaultCross, <<>>),
      groups |-> <<MkGroup(0, 1, 1, <<NewBoard(1, 0)>>)>>,
      avail |-> AllAvailable,
      cmds |-> <<cmd>>] :
        fps \in 1..MaxFps, pre \in {0, 1},
        cmd \in UNION {
            {Display(order, [DefaultDispOps EXCEPT !.logtime = logtime,
                                                   !.logdur = logdur,
                                                   !.nolog = nolog]),
             Export(order, FALSE, [DefaultDispOps EXCEPT
                                     !.logtime = logtime,
                                     !.logdur = logdur,
                                     !.expo_dur = Infinity])} :
            order \in {<<>>, <<0, -1>>},
            logtime \in BOOLEAN, logdur \in BOOLEAN, nolog \in BOOLEAN}}

\* a group of one frame displayed with eye tracking, its failures played
\* again in blocks
RetryRuns ==
    {[proj |-> MkProj(1, 0, 0, DefaultCross, <<>>),
      groups |-> <<MkGroup(0, TimeDen, 0, <<>>)>>,
      avail |-> AllAvailable,
      cmds |-> <<Display(<<>>, ops)>>] :
        ops \in {[DefaultDispOps EXCEPT !.eyetrack = TRUE,
                                        !.waitless = TRUE,
                                        !.repeats = 3, !.tryagain = 3,
                                        !.trybreak = tb] : tb \in {None, 2}}
                \cup {[DefaultDispOps EXCEPT !.eyetrack = TRUE,
                                             !.tryagain = 1]}}

Runs ==
    TimingRuns \cup SequenceRuns \cup EyeRuns \cup PreflightRuns
    \cup LongRuns \cup LogRuns \cup RetryRuns

Init ==
    /\ \E r \in Runs :
         /\ proj = r.proj
         /\ groups = r.groups
         /\ avail = r.avail
         /\ cmds = r.cmds
    /\ runstate = NewRunState(proj.fps, DefaultDispOps, <<>>)
    /\ eyetracking = EyetrackingIdle
    /\ trigger = PortsClosed
    /\ priority = NORMAL_PRIORITY
    /\ hist = <<>>
    /\ waitscreen = [steps_done |-> 0]
    /\ ctl = IdleCtl
    /\ frame = NoFrame
    /\ prev = NoFrame
    /\ files = NoFiles
    /\ line = 0
    /\ board = NewBoard(0, 0)
    /\ bfps = 1
    /\ nupd = 0
    /\ braised = FALSE

Spec == Init /\ [][Next]_vars

(***************************************************************************)
(* A CheckerBoard driven by reset() and update(fps)                        *)
(***************************************************************************)
BoardPhases == {0, 90}

InitBoard ==
    /\ \E freq \in 0..MaxFreq, phase \in BoardPhases :
           board = NewBoard(freq, phase)
    /\ bfps \in 1..MaxBoardFps
    /\ nupd = 0
    /\ braised = FALSE
    /\ IdleRun

\* shape.update(fps)
DoBoardUpdate ==
    /\ nupd < MaxUpdates
    /\ ~braised
    /\ IF BoardUpdateRaises(board, bfps)
       THEN /\ board' = BoardUpdateRaised(board)
            /\ braised' = TRUE
            /\ nupd' = nupd
       ELSE /\ board' = BoardUpdate(board, bfps)
            /\ braised' = FALSE
            /\ nupd' = nupd + 1
    /\ UNCHANGED bfps
    /\ UNCHANGED runvars

\* shape.reset()
DoBoardReset ==
    /\ nupd > 0 \/ braised
    /\ board' = BoardReset(board)
    /\ nupd' = 0
    /\ braised' = FALSE
    /\ UNCHANGED bfps
    /\ UNCHANGED runvars

NextBoard == DoBoardUpdate \/ DoBoardReset

SpecBoard == InitBoard /\ [][NextBoard]_vars

(***************************************************************************)
(* A CkgDisplayGroup driven by reset() and by the frames of its disp       *)
(* interval                                                                *)
(***************************************************************************)
FlipGroups ==
    {MkGroup(0, Infinity, 0, shapes) :
        shapes \in {<<NewBoard(f, 0)>> : f \in 0..MaxFreq}
                   \cup {<<NewBoard(f, 0), NewBoard(g, 90)>> :
                            f \in 1..MaxFreq, g \in 0..MaxFreq}}

\* no flip has been counted since reset()
NoFlips(g) == [n |-> [k \in 1..Len(g.shapes) |-> 0], counted |-> {},
               updated |-> FALSE]

InitFlips ==
    /\ \E g \in FlipGroups, fps \in 1..MaxFlipFps, m \in 1..MaxFpst,
          burst \in BOOLEAN :
         /\ groups = <<GroupReset(g)>>
         /\ proj = MkProj(fps, 0, 0, DefaultCross, <<>>)
         /\ runstate = [NewRunState(fps, [TrigOps EXCEPT
                                            !.fpst = m,
                                            !.photoburst = burst], <<0>>)
                          EXCEPT !.window = TRUE, !.events.grp_on = TRUE]
         /\ hist = NoFlips(g)
    /\ avail = AllAvailable
    /\ cmds = <<>>
    /\ eyetracking = EyetrackingIdle
    /\ waitscreen = [steps_done |-> 0]
    /\ ctl = [IdleCtl EXCEPT !.pc = "grp_disp", !.started = TRUE, !.gid = 0]
    /\ frame = NoFrame
    /\ prev = NoFrame
    /\ files = NoFiles
    /\ line = 0
    /\ trigger = [PortsClosed EXCEPT !.PARPORT = TRUE]
    /\ priority = NORMAL_PRIORITY
    /\ board = NewBoard(0, 0)
    /\ bfps = 1
    /\ nupd = 0
    /\ braised = FALSE

\* one pass of the disp loop of CkgDisplayGroup.display: draw, update,
\* runstate.update()
DoGroupFrame ==
    /\ ctl.pc = "grp_disp"
    /\ ~runstate.terminate
    /\ runstate.count < MaxFlipFrames
    /\ hist' = [n |-> [k \in 1..Len(Grp.shapes) |->
                         hist.n[k] + Bit(Grp.shapes[k].flipped)],
                counted |-> {k \in 1..Len(Grp.shapes) : Grp.shapes[k].flipped},
                updated |-> TRUE]
    /\ IF GroupUpdateRaises(Grp, runstate)
       THEN /\ groups' = [groups EXCEPT ![1] = GroupUpdateRaised(@, runstate)]
            /\ runstate' = [runstate EXCEPT
                              !.events.sids = @ \cup GroupSids(Grp, runstate)]
            /\ ctl' = Raised("DivisionByZero")
            /\ UNCHANGED <<eyetracking, frame, prev, files, line>>
       ELSE /\ groups' = [groups EXCEPT ![1] = GroupUpdate(@, runstate)]
            /\ Frame(GroupDraw(Grp, 0, runstate),
                     [runstate EXCEPT
                        !.events.sids = @ \cup GroupSids(Grp, runstate)],
                     ctl)
    /\ UNCHANGED <<boardvars, proj, avail, cmds, waitscreen, trigger,
                   priority>>

\* CkgDisplayGroup.reset(), as display() calls it for the next showing of
\* the group
DoGroupReset ==
    /\ ctl.pc = "grp_disp"
    /\ ~runstate.terminate
    /\ hist.updated
    /\ groups' = [groups EXCEPT ![1] = GroupReset(@)]
    /\ hist' = NoFlips(Grp)
    /\ UNCHANGED <<boardvars, proj, avail, cmds, runstate, eyetracking,
                   waitscreen, ctl, frame, prev, files, line, trigger,
                   priority>>

NextFlips == DoGroupFrame \/ DoGroupReset

SpecFlips == InitFlips /\ [][NextFlips]_vars

(***************************************************************************)
(* The eye tracker polled by is_tracked(fps) and is_fixated(fps)           *)
(***************************************************************************)
\* the polls a state needs to change: the least n with
\* n >= period / 1000 * fps
PollsNeeded(period, fps) == (period * fps + 999) \div 1000

\* the polls the history keeps
Window == PollsNeeded(TRACK_PER, MaxEyeFps)

\* the history h with the outcome o of one more poll
Polled(h, o) ==
    LET all == Append(h, o)
    IN  IF Len(all) > Window THEN Tail(all) ELSE all

\* the outcome of a poll: the status polled agreed with the state returned
\* before ("same"), differed from it ("diff"), or differed and changed it
PollOutcome(differs, changes) ==
    IF changes THEN "changed" ELSE IF differs THEN "diff" ELSE "same"

\* a run with eye tracking has been started at any frame rate
InitEye ==
    /\ \E fps \in 1..MaxEyeFps :
         /\ proj = MkProj(fps, 0, 0, DefaultCross, <<>>)
         /\ runstate = [NewRunState(fps, [DefaultDispOps EXCEPT
                                            !.eyetrack = TRUE], <<>>)
                          EXCEPT !.window = TRUE]
    /\ groups = <<>>
    /\ avail = AllAvailable
    /\ cmds = <<>>
    /\ eyetracking = [EyetrackingIdle EXCEPT !.Tracking = TRUE]
    /\ waitscreen = [steps_done |-> 0]
    /\ ctl = [IdleCtl EXCEPT !.pc = "proj_pre", !.started = TRUE]
    /\ frame = NoFrame
    /\ prev = NoFrame
    /\ files = NoFiles
    /\ line = 0
    /\ trigger = PortsClosed
    /\ priority = NORMAL_PRIORITY
    /\ hist = <<>>
    /\ board = NewBoard(0, 0)
    /\ bfps = 1
    /\ nupd = 0
    /\ braised = FALSE

\* the first poll of a session: the history of the polls begins
StartOfPolls == [track |-> <<>>, fix |-> <<>>]

\* eyetracking.is_tracked(fps)
PollTracked ==
    \E raw \in RawSamples :
        LET et == is_tracked(eyetracking, raw, runstate.fps)
            h  == IF hist = <<>> THEN StartOfPolls ELSE hist
        IN  /\ eyetracking' = et
            /\ hist' = [h EXCEPT !.track = Polled(@, PollOutcome(
                            raw.Tracked # eyetracking.lasttrackstatus,
                            et.lasttrackstatus # eyetracking.lasttrackstatus))]
            /\ UNCHANGED <<boardvars, proj, groups, avail, cmds, runstate,
                           waitscreen, ctl, frame, prev, files, line, trigger,
                           priority>>

\* eyetracking.is_fixated(fps)
PollFixated ==
    \E raw \in RawSamples :
        LET et == is_fixated(eyetracking, raw, runstate.fps)
            h  == IF hist = <<>> THEN StartOfPolls ELSE hist
        IN  /\ eyetracking' = et
            /\ hist' = [h EXCEPT !.fix = Polled(@, PollOutcome(
                            (raw.Tracked /\ raw.InRange)
                                # eyetracking.lastfixstatus,
                            et.lastfixstatus # eyetracking.lastfixstatus))]
            /\ UNCHANGED <<boardvars, proj, groups, avail, cmds, runstate,
                           waitscreen, ctl, frame, prev, files, line, trigger,
                           priority>>

NextEye == PollTracked \/ PollFixated

SpecEye == InitEye /\ [][NextEye]_vars

(***************************************************************************)
(* A run with eye tracking that follows an earlier run in the same         *)
(* process, beside the same run in a new process                           *)
(***************************************************************************)
\* the run state start() leaves for a display with eye tracking
EyeRunState(fps) ==
    [NewRunState(fps, [TrigOps EXCEPT !.eyetrack = TRUE], <<0>>)
        EXCEPT !.window = TRUE]

\* eyetracking.start(): the tracker is started, the debounced states and
\* their counts are left as they are
Started(et) == [et EXCEPT !.Tracking = TRUE]

InitTwin ==
    /\ \E fps \in 1..MaxEyeFps :
         /\ proj = MkProj(fps, 0, 0, DefaultCross, <<>>)
         /\ runstate = EyeRunState(fps)
    /\ groups = <<>>
    /\ avail = AllAvailable
    /\ cmds = <<>>
    /\ eyetracking = Started(EyetrackingIdle)
    /\ waitscreen = [steps_done |-> 0]
    /\ ctl = [IdleCtl EXCEPT !.pc = "proj_pre", !.started = TRUE]
    /\ frame = NoFrame
    /\ prev = NoFrame
    /\ files = NoFiles
    /\ line = 0
    /\ trigger = [PortsClosed EXCEPT !.PARPORT = TRUE]
    /\ priority = NORMAL_PRIORITY
    /\ hist = [earlier |-> TRUE, rs |-> runstate, et |-> eyetracking,
               out |-> NoFrame]
    /\ board = NewBoard(0, 0)
    /\ bfps = 1
    /\ nupd = 0
    /\ braised = FALSE

\* a frame of the earlier run
EarlierFrame ==
    /\ hist.earlier
    /\ ~runstate.terminate
    /\ runstate.count < MaxCount
    /\ Frame(Blank, runstate, ctl)
    /\ UNCHANGED <<boardvars, proj, groups, avail, cmds, waitscreen, trigger,
                   priority, hist>>

\* the earlier run is over, and the same display() is called again: stop()
\* and start() of a new run state, the module state of eyetracking.py kept
SecondRun ==
    /\ hist.earlier
    /\ runstate' = EyeRunState(proj.fps)
    /\ eyetracking' = Started(eyetracking)
    /\ frame' = NoFrame
    /\ prev' = NoFrame
    /\ line' = 0
    /\ hist' = [hist EXCEPT !.earlier = FALSE]
    /\ UNCHANGED <<boardvars, proj, groups, avail, cmds, waitscreen, ctl,
                   files, trigger, priority>>

\* a frame of the second run, and the frame of the run in the new process
\* for the same raw sample and the same window event
TwinFrame ==
    /\ ~hist.earlier
    /\ ~runstate.terminate
    /\ runstate.count < MaxCount
    /\ \E raw \in RawSamples, has_exit \in BOOLEAN :
         LET r == update(runstate, eyetracking, Blank, raw, has_exit)
             q == update(hist.rs, hist.et, Blank, raw, has_exit)
         IN  /\ runstate' = r.rs
             /\ eyetracking' = r.et
             /\ frame' = r.out
             /\ prev' = frame
             /\ line' = IF r.out.sent THEN r.out.code ELSE line
             /\ hist' = [hist EXCEPT !.rs = q.rs, !.et = q.et, !.out = q.out]
    /\ UNCHANGED <<boardvars, proj, groups, avail, cmds, waitscreen, ctl,
                   files, trigger, priority>>

NextTwin == EarlierFrame \/ SecondRun \/ TwinFrame

SpecTwin == InitTwin /\ [][NextTwin]_vars

(***************************************************************************)
(* Assignments to the attributes of a CheckerBoard and of a CkgProj        *)
(***************************************************************************)
\* graphics.locations.keys()
locations ==
    {"topleft", "topright", "bottomleft", "bottomright", "midtop",
     "midbottom", "midleft", "midright", "center"}

EXPORT_FMTS == {"png"}

\* CheckerBoard.DEFAULTS, and _computed after __init__ has called reset()
DefaultBoardAttrs ==
    [dims |-> <<5, 5>>, init_unit |-> <<30, 30>>, end_unit |-> <<50, 50>>,
     position |-> <<0, 0>>, anchor |-> "bottomleft",
     cols |-> <<(<<0, 0, 0>>), (<<255, 255, 255>>)>>, freq |-> 1,
     computed |-> TRUE]

\* CkgProj.DEFAULTS (export_fmt: of src/core.py), and _dirty after save()
DefaultProjAttrs ==
    [res |-> <<800, 600>>, bg |-> <<127, 127, 127>>, export_fmt |-> "png",
     dirty |-> FALSE]

\* the attributes of a board whose assignment asks for compute()
Computed == {"dims", "init_unit", "end_unit", "position", "anchor", "cols"}

\* CheckerBoard.__setattr__ that looks at the length of cols only
BoardSetattrRaisesOuter(name, value) ==
    CASE name \in {"dims", "init_unit", "end_unit", "position"} ->
            Len(value) # 2
      [] name = "anchor" -> value \notin locations
      [] name = "cols" -> Len(value) # 2
      [] OTHER -> FALSE

\* CheckerBoard.__setattr__(name, value) raises ValueError
BoardSetattrRaises(name, value) ==
    CASE name \in {"dims", "init_unit", "end_unit", "position"} ->
            Len(value) # 2
      [] name = "anchor" -> value \notin locations
      [] name = "cols" ->
            \/ Len(value) # 2
            \/ \E k \in 1..Len(value) : Len(value[k]) # 3
      [] OTHER -> FALSE

\* an assignment that leaves the flag alone when the colours are assigned
BoardSetattrKeepsCols(b, name, value) ==
    IF BoardSetattrRaises(name, value) THEN b
    ELSE [b EXCEPT ![name] = value,
                   !.computed = IF name \in Computed \ {"cols"} THEN FALSE
                                ELSE @]

\* CheckerBoard.__setattr__(name, value): the board after the assignment
BoardSetattr(b, name, value) ==
    IF BoardSetattrRaises(name, value) THEN b
    ELSE [b EXCEPT ![name] = value,
                   !.computed = IF name \in Computed THEN FALSE ELSE @]

\* CkgProj.__setattr__(name, value) raises ValueError or FileFormatError
ProjSetattrRaises(name, value) ==
    CASE name = "res" -> Len(value) # 2
      [] name = "bg" -> Len(value) # 3
      [] name = "export_fmt" -> value \notin EXPORT_FMTS
      [] OTHER -> FALSE

\* CkgProj.__setattr__(name, value): the project after the assignment
ProjSetattr(p, name, value) ==
    IF ProjSetattrRaises(name, value) THEN p
    ELSE [p EXCEPT ![name] = value, !.dirty = TRUE]

\* the tuples of numbers assigned: of every length up to MaxArity
Tuples == {[k \in 1..n |-> k] : n \in 1..MaxArity}

\* the tuples of colours assigned
ColTuples ==
    UNION {[1..n -> {<<255, 255, 255>>, <<255, 255>>}] :
              n \in 1..MaxArity}

\* the values assigned to an attribute
AttrValues(name) ==
    CASE name \in {"dims", "init_unit", "end_unit", "position", "res", "bg"}
            -> Tuples
      [] name = "cols" -> ColTuples
      [] name = "anchor" -> {"bottomleft", "center", "middle", "mid"}
      [] name = "export_fmt" -> {"png", "jpg", "gif"}
      [] name = "freq" -> {1}

\* no assignment has been made
NoAssignment == [target |-> "none", name |-> "none", old |-> 0, flag |-> FALSE]

InitAttr ==
    /\ board = DefaultBoardAttrs
    /\ proj = DefaultProjAttrs
    /\ bfps = 1
    /\ nupd = 0
    /\ braised = FALSE
    /\ groups = <<>>
    /\ avail = AllAvailable
    /\ cmds = <<>>
    /\ runstate = NewRunState(1, DefaultDispOps, <<>>)
    /\ eyetracking = EyetrackingIdle
    /\ waitscreen = [steps_done |-> 0]
    /\ ctl = IdleCtl
    /\ frame = NoFrame
    /\ prev = NoFrame
    /\ files = NoFiles
    /\ line = 0
    /\ trigger = PortsClosed
    /\ priority = NORMAL_PRIORITY
    /\ hist = NoAssignment

\* board.name = value
SetBoardAttr ==
    /\ \E name \in Computed \cup {"freq"} :
         \E value \in AttrValues(name) :
            /\ board' = BoardSetattr(board, name, value)
            /\ braised' = BoardSetattrRaises(name, value)
            /\ hist' = [target |-> "board", name |-> name,
                        value |-> value, old |-> board[name],
                        flag |-> board.computed]
    /\ UNCHANGED <<bfps, nupd, proj, groups, avail, cmds, runstate,
                   eyetracking, waitscreen, ctl, frame, prev, files, line,
                   trigger, priority>>

\* proj.name = value
SetProjAttr ==
    /\ \E name \in {"res", "bg", "export_fmt"} :
         \E value \in AttrValues(name) :
            /\ proj' = ProjSetattr(proj, name, value)
            /\ braised' = ProjSetattrRaises(name, value)
            /\ hist' = [target |-> "proj", name |-> name,
                        value |-> value, old |-> proj[name],
                        flag |-> proj.dirty]
    /\ UNCHANGED <<board, bfps, nupd, groups, avail, cmds, runstate,
                   eyetracking, waitscreen, ctl, frame, prev, files, line,
                   trigger, priority>>

\* board.reset() of a board that is not computed: compute()
DoCompute ==
    /\ ~board.computed
    /\ board' = [board EXCEPT !.computed = TRUE]
    /\ braised' = FALSE
    /\ hist' = NoAssignment
    /\ UNCHANGED <<bfps, nupd, proj, groups, avail, cmds, runstate,
                   eyetracking, waitscreen, ctl, frame, prev, files, line,
                   trigger, priority>>

\* proj.save()
DoSave ==
    /\ proj.dirty
    /\ proj' = [proj EXCEPT !.dirty = FALSE]
    /\ braised' = FALSE
    /\ hist' = NoAssignment
    /\ UNCHANGED <<board, bfps, nupd, groups, avail, cmds, runstate,
                   eyetracking, waitscreen, ctl, frame, prev, files, line,
                   trigger, priority>>

NextAttr == SetBoardAttr \/ SetProjAttr \/ DoCompute \/ DoSave

SpecAttr == InitAttr /\ [][NextAttr]_vars

(***************************************************************************)
(* display() of src/core.py: groups that count their own frames, and the   *)
(* signals of signals.py                                                   *)
(***************************************************************************)
GROUP_ON == 42
GROUP_OFF == 17

\* par_init(): the state is 0, nothing is to be sent
SignalsInit == [PARSTATE |-> 0, PARFLIP |-> FALSE]

\* par_set_on() and par_set_off(), when signals are asked for
par_set(sig, sigpar, state) ==
    IF sigpar /\ sig.PARSTATE # state
    THEN [PARSTATE |-> state, PARFLIP |-> TRUE]
    ELSE sig

\* a CkgDisplayGroup of src/core.py after __init__
SigGroup(pre, disp, post) ==
    [pre |-> pre, disp |-> disp, post |-> post,
     pre_count |-> 0, disp_count |-> 0, post_count |-> 0,
     disp_over |-> pre = 0 /\ disp = 0,
     visible |-> pre = 0 /\ disp > 0]

\* no group is left
NoSigGroup == [SigGroup(0, 0, 0) EXCEPT !.pre = None]

\* CkgDisplayGroup.reset(sigpar=...)
SigReset(g) == SigGroup(g.pre, g.disp, g.post)

SigResetSignals(g, sig, sigpar) ==
    par_set(sig, sigpar, IF SigReset(g).visible THEN GROUP_ON ELSE GROUP_OFF)

\* count >= t * fps of update()
Reached(count, t, fps) == count * TimeDen >= t * fps

\* update(): the frame that has been drawn was the last of disp
SigDispOver(g, fps) ==
    /\ g.visible
    /\ ~g.disp_over
    /\ Reached(g.disp_count + 1, g.disp, fps)

\* CkgDisplayGroup.update(fps, sigpar=...): the group, the signals and the
\* value returned
SigUpdate(g, fps, sig, sigpar) ==
    IF g.disp_over
    THEN [g |-> [g EXCEPT !.post_count = @ + 1], sig |-> sig,
          over |-> Reached(g.post_count + 1, g.post, fps)]
    ELSE IF g.visible
    THEN [g |-> [g EXCEPT !.disp_count = @ + 1,
                          !.visible = ~SigDispOver(g, fps),
                          !.disp_over = SigDispOver(g, fps)],
          sig |-> IF SigDispOver(g, fps) THEN par_set(sig, sigpar, GROUP_OFF)
                  ELSE sig,
          over |-> FALSE]
    ELSE [g |-> [g EXCEPT !.pre_count = @ + 1,
                          !.visible = Reached(g.pre_count + 1, g.pre, fps)],
          sig |-> IF Reached(g.pre_count + 1, g.pre, fps)
                  THEN par_set(sig, sigpar, GROUP_ON) ELSE sig,
          over |-> FALSE]

\* the variables of display() before its main loop
SigLoop(g, sigpar) ==
    [pc |-> "loop", sigpar |-> sigpar, cur_group |-> g,
     groups_show |-> FALSE, groups_over |-> FALSE, anim_over |-> FALSE,
     pre_count |-> 0, post_count |-> 0, has_exit |-> FALSE]

\* no frame has been flipped
NoSigFrame == [index |-> None, drawn |-> FALSE, sent |-> None]

\* the frames the group being played has had, and the group last over
NoSigHist ==
    [frames |-> 0, drawn |-> 0, over |-> FALSE, pre |-> 0, disp |-> 0,
     post |-> 0, total |-> 0, shown |-> 0, first |-> FALSE]

\* the timings of the groups that are played
SigQueues ==
    {<<SigGroup(pre, disp, post)>> : pre \in 0..MaxDur, disp \in 0..MaxDur,
                                     post \in 0..MaxDur}
    \cup {<<SigGroup(pre, disp, post), SigGroup(p, TimeDen, 0)>> :
             pre \in 0..MaxDur, disp \in 0..MaxDur, post \in 0..MaxDur,
             p \in {0, TimeDen}}

InitSig ==
    /\ \E fps \in 1..MaxFps, pre \in {0, TimeDen}, post \in {0, TimeDen},
          queue \in SigQueues, sigpar \in BOOLEAN :
         /\ proj = MkProj(fps, pre, post, DefaultCross, <<>>)
         /\ groups = Tail(queue)
         /\ ctl = SigLoop(SigReset(Head(queue)), sigpar)
         /\ trigger = SigResetSignals(Head(queue),
                          par_set(SignalsInit, sigpar, GROUP_OFF), sigpar)
    /\ avail = AllAvailable
    /\ cmds = <<>>
    /\ runstate = NewRunState(1, DefaultDispOps, <<>>)
    /\ eyetracking = EyetrackingIdle
    /\ waitscreen = [steps_done |-> 0]
    /\ frame = NoSigFrame
    /\ prev = NoSigFrame
    /\ files = NoFiles
    /\ line = 0
    /\ priority = NORMAL_PRIORITY
    /\ hist = NoSigHist
    /\ board = NewBoard(0, 0)
    /\ bfps = 1
    /\ nupd = 0
    /\ braised = FALSE

\* one pass of the main loop of display(): the counters and flags, the
\* draw() and update() of the current group, the next group on its end,
\* the flip, and the signal sent after the flip
SigFrame ==
    /\ ctl.pc = "loop"
    /\ ~(ctl.has_exit \/ ctl.anim_over)
    /\ \E has_exit \in BOOLEAN :
         LET idle   == ~ctl.groups_show /\ ~ctl.groups_over
             show   == ctl.groups_show
                       \/ (idle /\ Reached(ctl.pre_count, proj.pre, proj.fps))
             plays  == show /\ ctl.cur_group.pre # None
             u      == SigUpdate(ctl.cur_group, proj.fps, trigger, ctl.sigpar)
             over   == plays /\ u.over
             last   == over /\ groups = <<>>
             next   == IF ~plays THEN ctl.cur_group
                       ELSE IF ~over THEN u.g
                       ELSE IF last THEN NoSigGroup
                       ELSE SigReset(Head(groups))
             sig    == IF ~plays THEN trigger
                       ELSE IF over /\ ~last
                       THEN SigResetSignals(Head(groups), u.sig, ctl.sigpar)
                       ELSE u.sig
             drawn  == plays /\ ctl.cur_group.visible
             sends  == ctl.sigpar /\ sig.PARFLIP
         IN  /\ ctl' = [ctl EXCEPT
                          !.groups_show = show /\ ~last,
                          !.groups_over = @ \/ last,
                          !.pre_count = IF ~show /\ ~ctl.groups_over
                                        THEN @ + 1 ELSE @,
                          !.anim_over =
                              ctl.groups_over
                              /\ Reached(ctl.post_count, proj.post, proj.fps),
                          !.post_count = IF ctl.groups_over THEN @ + 1 ELSE @,
                          !.cur_group = next,
                          !.has_exit = has_exit]
             /\ groups' = IF over /\ ~last THEN Tail(groups) ELSE groups
             /\ trigger' = [sig EXCEPT !.PARFLIP = @ /\ ~ctl.sigpar]
             /\ line' = IF sends THEN sig.PARSTATE ELSE line
             /\ frame' = [index |-> IF frame.index = None THEN 0
                                    ELSE frame.index + 1,
                          drawn |-> drawn,
                          sent |-> IF sends THEN sig.PARSTATE ELSE None]
             /\ prev' = frame
             /\ hist' = IF ~plays THEN [hist EXCEPT !.over = FALSE]
                        ELSE IF over
                        THEN [hist EXCEPT
                                !.frames = 0, !.drawn = 0, !.over = TRUE,
                                !.pre = ctl.cur_group.pre,
                                !.disp = ctl.cur_group.disp,
                                !.post = ctl.cur_group.post,
                                !.total = hist.frames + 1,
                                !.shown = hist.drawn + Bit(drawn),
                                !.first = IF hist.frames = 0 THEN drawn
                                          ELSE hist.first]
                        ELSE [hist EXCEPT
                                !.frames = @ + 1,
                                !.drawn = @ + Bit(drawn),
                                !.over = FALSE,
                                !.first = IF hist.frames = 0 THEN drawn
                                          ELSE @]
    /\ UNCHANGED <<boardvars, proj, avail, cmds, runstate, eyetracking,
                   waitscreen, files, priority>>

\* the end of display(): the window is closed, par_quit()
SigQuit ==
    /\ ctl.pc = "loop"
    /\ ctl.has_exit \/ ctl.anim_over
    /\ ctl' = [ctl EXCEPT !.pc = "done"]
    /\ trigger' = IF ctl.sigpar THEN SignalsInit ELSE trigger
    /\ line' = IF ctl.sigpar THEN 0 ELSE line
    /\ UNCHANGED <<boardvars, proj, groups, avail, cmds, runstate,
                   eyetracking, waitscreen, frame, prev, files, priority,
                   hist>>

NextSig == SigFrame \/ SigQuit

SpecSig == InitSig /\ [][NextSig]_vars

(***************************************************************************)
(* CkgRunState.update() statement by statement                             *)
(***************************************************************************)
\* an update() that clears the events before it transmits the trigger
StepAfterClearFirst(pc) ==
    CASE pc = "call" -> "cross"
      [] pc = "cross" -> "flip"
      [] pc = "flip" -> "stamps"
      [] pc = "stamps" -> "clear"
      [] pc = "clear" -> "trigger"
      [] pc = "trigger" -> "trigstamp"
      [] pc = "trigstamp" -> "count"
      [] pc = "count" -> "call"

\* the blocks of update() in the order of the code: the polls and the
\* cross, the save or the flip, the time and duration stamps, the trigger,
\* the log of the trigger, the clearing of canvas and events, the count
StepAfter(pc) ==
    CASE pc = "call" -> "cross"
      [] pc = "cross" -> "flip"
      [] pc = "flip" -> "stamps"
      [] pc = "stamps" -> "trigger"
      [] pc = "trigger" -> "trigstamp"
      [] pc = "trigstamp" -> "clear"
      [] pc = "clear" -> "count"
      [] pc = "count" -> "call"

\* the display options of the runs that are followed statement by statement
StepOps ==
    {[DefaultDispOps EXCEPT !.trigpar = TRUE, !.logtime = TRUE],
     [DefaultDispOps EXCEPT !.trigpar = TRUE, !.eyetrack = TRUE,
                            !.logdur = TRUE],
     [DefaultDispOps EXCEPT !.trigser = TRUE],
     [DefaultDispOps EXCEPT !.export = TRUE, !.logtime = TRUE]}

\* the events a caller sets before it calls update()
CallerEvents(rs) ==
    {rs.events,
     [rs.events EXCEPT !.blk_on = TRUE],
     [rs.events EXCEPT !.blk_off = TRUE],
     [rs.events EXCEPT !.grp_on = TRUE],
     [rs.events EXCEPT !.grp_off = TRUE],
     [rs.events EXCEPT !.sids = {0}]}

InitSteps ==
    /\ \E ops \in StepOps, ord_id \in {None, 0} :
         runstate = [NewRunState(MaxFps, ops, <<0>>) EXCEPT
                       !.window = ~ops.export, !.fbo = ops.export,
                       !.frames = IF ops.export THEN MaxStepFrames * TimeDen
                                  ELSE None,
                       !.ord_id = ord_id]
    /\ proj = MkProj(MaxFps, 0, 0, DefaultCross, <<>>)
    /\ groups = <<>>
    /\ avail = AllAvailable
    /\ cmds = <<>>
    /\ eyetracking = Started(EyetrackingIdle)
    /\ waitscreen = [steps_done |-> 0]
    /\ ctl = [IdleCtl EXCEPT !.pc = "call", !.started = TRUE]
    /\ frame = NoFrame
    /\ prev = NoFrame
    /\ files = NoFiles
    /\ line = 0
    /\ trigger = [PortsClosed EXCEPT !.PARPORT = TRUE]
    /\ priority = NORMAL_PRIORITY
    /\ hist = [rs |-> runstate, et |-> eyetracking, raw |-> NoSample,
               has_exit |-> FALSE, steps |-> <<>>]
    /\ board = NewBoard(0, 0)
    /\ bfps = 1
    /\ nupd = 0
    /\ braised = FALSE

\* the block at pc has been executed
Stepped(pc) ==
    /\ ctl' = [ctl EXCEPT !.pc = StepAfter(pc)]
    /\ hist' = [hist EXCEPT !.steps = Append(@, pc)]

\* the caller sets its events and calls update(); the sample the tracker
\* holds and the state of the window during this call
StepCall ==
    /\ ctl.pc = "call"
    /\ ~runstate.terminate
    /\ runstate.count < MaxStepFrames
    /\ \E ev \in CallerEvents(runstate), show \in BOOLEAN,
          raw \in IF runstate.disp_ops.eyetrack THEN RawSamples
                  ELSE {NoSample},
          has_exit \in IF runstate.disp_ops.export THEN {FALSE}
                       ELSE BOOLEAN :
         /\ runstate' = [runstate EXCEPT !.events = ev, !.show_cross = show]
         /\ hist' = [rs |-> runstate', et |-> eyetracking, raw |-> raw,
                     has_exit |-> has_exit, steps |-> <<>>]
    /\ ctl' = [ctl EXCEPT !.pc = StepAfter("call")]
    /\ prev' = frame
    /\ UNCHANGED <<boardvars, proj, groups, avail, cmds, eyetracking,
                   waitscreen, frame, files, line, trigger, priority>>

\* "Check for tracking and fixation", the cross, the eyetracking events and
\* the failure of the trial
StepCross ==
    /\ ctl.pc = "cross"
    /\ LET rs  == runstate
           eye == rs.disp_ops.eyetrack
           et1 == IF eye THEN is_tracked(eyetracking, hist.raw, rs.fps)
                  ELSE eyetracking
           et2 == IF eye THEN is_fixated(et1, hist.raw, rs.fps)
                  ELSE eyetracking
           trk == IF eye THEN et2.lasttrackstatus ELSE rs.tracked
           fix == IF eye THEN et2.lastfixstatus ELSE rs.fixated
       IN  /\ eyetracking' = et2
           /\ runstate' =
                [rs EXCEPT
                   !.old_tracked = IF eye THEN rs.tracked ELSE @,
                   !.tracked = trk,
                   !.old_fixated = IF eye THEN rs.fixated ELSE @,
                   !.fixated = fix,
                   !.events =
                      IF eye
                      THEN [@ EXCEPT
                              !.track_on = @ \/ (trk # rs.tracked /\ trk),
                              !.track_off = @ \/ (trk # rs.tracked /\ ~trk),
                              !.fix_on = @ \/ (fix # rs.fixated /\ fix),
                              !.fix_off = @ \/ (fix # rs.fixated /\ ~fix)]
                      ELSE @,
                   !.fix_fail = IF eye THEN FixFailAfter(@, trk, fix) ELSE @]
           /\ frame' = [NoFrame EXCEPT !.cross = CrossDrawn(rs, trk, fix)]
    /\ Stepped("cross")
    /\ UNCHANGED <<boardvars, proj, groups, avail, cmds, waitscreen, prev,
                   files, line, trigger, priority>>

\* the canvas is saved to a file, or blitted and flipped to the window
StepFlip ==
    /\ ctl.pc = "flip"
    /\ frame' = [frame EXCEPT
                   !.index = runstate.count,
                   !.width = IF runstate.disp_ops.export
                             THEN numdigits(runstate.frames - TimeDen)
                             ELSE 0]
    /\ files' = IF runstate.disp_ops.export
                THEN [files EXCEPT !.imgs = Append(@, frame')]
                ELSE files
    /\ Stepped("flip")
    /\ UNCHANGED <<boardvars, proj, groups, avail, cmds, runstate,
                   eyetracking, waitscreen, prev, line, trigger, priority>>

\* "Append time information to lists"
StepStamps ==
    /\ ctl.pc = "stamps"
    /\ runstate' = [runstate EXCEPT
                      !.timestamps = TimestampsAfter(runstate),
                      !.durstamps = DurstampsAfter(runstate)]
    /\ Stepped("stamps")
    /\ UNCHANGED <<boardvars, proj, groups, avail, cmds, eyetracking,
                   waitscreen, frame, prev, files, line, trigger, priority>>

\* "Send trigger ASAP after flip"
StepTrigger ==
    /\ ctl.pc = "trigger"
    /\ LET code == encode_events(runstate.events)
           trig == runstate.disp_ops.trigser \/ runstate.disp_ops.trigpar
           sent == trig /\ SendsCode(code, runstate.old_code)
       IN  /\ frame' = [frame EXCEPT !.events = runstate.events,
                                     !.code = code, !.sent = sent]
           /\ line' = IF sent THEN code ELSE line
           /\ runstate' = [runstate EXCEPT
                             !.old_code = IF trig THEN OldCodeAfter(code)
                                          ELSE @]
    /\ Stepped("trigger")
    /\ UNCHANGED <<boardvars, proj, groups, avail, cmds, eyetracking,
                   waitscreen, prev, files, trigger, priority>>

\* "Log when triggers are sent"
StepTrigstamp ==
    /\ ctl.pc = "trigstamp"
    /\ runstate' = [runstate EXCEPT
                      !.trigstamps =
                          TrigstampsAfter(runstate,
                                          encode_events(runstate.events))]
    /\ Stepped("trigstamp")
    /\ UNCHANGED <<boardvars, proj, groups, avail, cmds, eyetracking,
                   waitscreen, frame, prev, files, line, trigger, priority>>

\* "Clear canvas, events, prepare for next frame"
StepClear ==
    /\ ctl.pc = "clear"
    /\ runstate' = [runstate EXCEPT
                      !.terminate = IF runstate.disp_ops.export THEN @
                                    ELSE @ \/ hist.has_exit,
                      !.events = EventsAfter(@, runstate.ord_id)]
    /\ frame' = [frame EXCEPT !.has_exit = hist.has_exit]
    /\ Stepped("clear")
    /\ UNCHANGED <<boardvars, proj, groups, avail, cmds, eyetracking,
                   waitscreen, prev, files, line, trigger, priority>>

\* the count of the frames and "Terminate export if the time has come"
StepCount ==
    /\ ctl.pc = "count"
    /\ runstate' = [runstate EXCEPT
                      !.count = @ + 1,
                      !.terminate =
                          IF runstate.disp_ops.export
                          THEN @ \/ (runstate.count + 1) * TimeDen
                                      >= runstate.frames
                          ELSE @]
    /\ Stepped("count")
    /\ UNCHANGED <<boardvars, proj, groups, avail, cmds, eyetracking,
                   waitscreen, frame, prev, files, line, trigger, priority>>

NextSteps ==
    \/ StepCall \/ StepCross \/ StepFlip \/ StepStamps \/ StepTrigger
    \/ StepTrigstamp \/ StepClear \/ StepCount

SpecSteps == InitSteps /\ [][NextSteps]_vars

(***************************************************************************)
(* The model compute() builds of a CheckerBoard, and draw()                *)
(***************************************************************************)
\* a CheckerBoard after __init__: DEFAULTS with the phase
DrawnBoard ==
    [n \in DOMAIN DefaultBoardAttrs \cup {"phase"} |->
        IF n = "phase" THEN 0 ELSE DefaultBoardAttrs[n]]

\* the attributes compute() reads to fill _batches
ModelOf(b) ==
    [dims |-> b.dims, init_unit |-> b.init_unit, end_unit |-> b.end_unit,
     position |-> b.position, anchor |-> b.anchor, cols |-> b.cols]

\* compute() divides by the entries of dims
ComputeRaises(b) == \E k \in 1..Len(b.dims) : b.dims[k] = 0

\* the values assigned to an attribute of the board that is drawn
DrawValues(name) ==
    CASE name = "dims" -> Tuples \cup {<<0, 1>>}
      [] name \in {"freq", "phase"} -> {2}
      [] OTHER -> AttrValues(name)

\* nothing has been called on the board since __init__, whose reset() has
\* computed the model
NoDraw(b) ==
    [op |-> "init", name |-> "none", flag |-> TRUE, raised |-> FALSE,
     batches |-> ModelOf(b), fresh |-> TRUE, recomputed |-> FALSE]

InitDraw ==
    /\ board = DrawnBoard
    /\ hist = NoDraw(DrawnBoard)
    /\ proj = DefaultProjAttrs
    /\ bfps = 1
    /\ nupd = 0
    /\ braised = FALSE
    /\ groups = <<>>
    /\ avail = AllAvailable
    /\ cmds = <<>>
    /\ runstate = NewRunState(1, DefaultDispOps, <<>>)
    /\ eyetracking = EyetrackingIdle
    /\ waitscreen = [steps_done |-> 0]
    /\ ctl = IdleCtl
    /\ frame = NoFrame
    /\ prev = NoFrame
    /\ files = NoFiles
    /\ line = 0
    /\ trigger = PortsClosed
    /\ priority = NORMAL_PRIORITY

\* board.name = value, between two calls of the board
DrawSetattr ==
    /\ \E name \in Computed \cup {"freq", "phase"} :
         \E value \in DrawValues(name) :
            /\ board' = BoardSetattr(board, name, value)
            /\ hist' = [hist EXCEPT
                          !.op = "set", !.name = name,
                          !.flag = board.computed,
                          !.raised = BoardSetattrRaises(name, value),
                          !.recomputed = FALSE]
    /\ UNCHANGED <<bfps, nupd, braised, proj, groups, avail, cmds, runstate,
                   eyetracking, waitscreen, ctl, frame, prev, files, line,
                   trigger, priority>>

\* the board and its batches after "if not self._computed: self.compute()"
\* (always: always_compute of draw), and whether compute() raised
Recomputed(b, batches, always) ==
    IF b.computed /\ ~always
    THEN [board |-> b, batches |-> batches, raised |-> FALSE, ran |-> FALSE]
    ELSE IF ComputeRaises(b)
    THEN [board |-> b, batches |-> batches, raised |-> TRUE, ran |-> TRUE]
    ELSE [board |-> [b EXCEPT !.computed = TRUE], batches |-> ModelOf(b),
          raised |-> FALSE, ran |-> TRUE]

\* board.reset()
DrawReset ==
    /\ LET r == Recomputed(board, hist.batches, FALSE)
       IN  /\ board' = r.board
           /\ hist' = [hist EXCEPT
                         !.op = "reset", !.name = "none",
                         !.flag = board.computed, !.raised = r.raised,
                         !.batches = r.batches, !.recomputed = r.ran]
    /\ UNCHANGED <<bfps, nupd, braised, proj, groups, avail, cmds, runstate,
                   eyetracking, waitscreen, ctl, frame, prev, files, line,
                   trigger, priority>>

\* board.draw(always_compute=...): one of the batches is drawn; fresh tells
\* whether the batches drawn are the model of the attributes of the board
DrawBoard ==
    /\ \E always_compute \in BOOLEAN :
         LET r == Recomputed(board, hist.batches, always_compute)
         IN  /\ board' = r.board
             /\ hist' = [hist EXCEPT
                           !.op = "draw", !.name = "none",
                           !.flag = board.computed, !.raised = r.raised,
                           !.batches = r.batches, !.recomputed = r.ran,
                           !.fresh = IF r.raised THEN @
                                     ELSE r.batches = ModelOf(r.board)]
    /\ UNCHANGED <<bfps, nupd, braised, proj, groups, avail, cmds, runstate,
                   eyetracking, waitscreen, ctl, frame, prev, files, line,
                   trigger, priority>>

NextDraw == DrawSetattr \/ DrawReset \/ DrawBoard

SpecDraw == InitDraw /\ [][NextDraw]_vars

(***************************************************************************)
(* The main loops of display() and export() of src/core.py                 *)
(***************************************************************************)
\* an export that takes export_duration * fps frames whatever the duration
\* of the animation
LoopFramesUnlimited(export_duration, anim_duration, fps) ==
    IF export_duration = Infinity THEN anim_duration * fps
    ELSE export_duration * fps

\* frames = min(export_duration, anim_duration) * fps, in TimeDen-ths of a
\* frame
LoopFrames(export_duration, anim_duration, fps) ==
    IF export_duration = Infinity \/ export_duration > anim_duration
    THEN anim_duration * fps
    ELSE export_duration * fps

\* CkgDisplayGroup.duration() summed over the queue
RECURSIVE QueueDuration(_)
QueueDuration(queue) ==
    IF queue = <<>> THEN 0
    ELSE Head(queue).pre + Head(queue).disp + Head(queue).post
         + QueueDuration(Tail(queue))

\* the variables of display() and of export() before the main loop
LoopVars(queue, export, frames) ==
    [pc |-> "loop", export |-> export, frames |-> frames, count |-> 0,
     cur_group |-> IF queue = <<>> THEN NoSigGroup
                   ELSE SigReset(Head(queue)),
     groups_show |-> FALSE, groups_over |-> FALSE, anim_over |-> FALSE,
     pre_count |-> 0, post_count |-> 0, has_exit |-> FALSE,
     empty |-> queue = <<>>]

\* the groups played: none, one or two
LoopQueues == {<<>>} \cup SigQueues

\* export_duration: as long as the animation, or a time
ExportDurations == {Infinity} \cup 0..(MaxDur + 1)

InitLoop ==
    /\ \E fps \in 1..MaxFps, pre \in {0, 1, TimeDen}, post \in {0, 1, TimeDen},
          queue \in LoopQueues, export \in BOOLEAN,
          export_duration \in ExportDurations :
         /\ export \/ export_duration = Infinity
         /\ proj = MkProj(fps, pre, post, DefaultCross, <<>>)
         /\ groups = IF queue = <<>> THEN <<>> ELSE Tail(queue)
         /\ ctl = LoopVars(queue, export,
                      IF export
                      THEN LoopFrames(export_duration,
                               pre + post + QueueDuration(queue), fps)
                      ELSE None)
    /\ trigger = SignalsInit
    /\ avail = AllAvailable
    /\ cmds = <<>>
    /\ runstate = NewRunState(1, DefaultDispOps, <<>>)
    /\ eyetracking = EyetrackingIdle
    /\ waitscreen = [steps_done |-> 0]
    /\ frame = NoSigFrame
    /\ prev = NoSigFrame
    /\ files = NoFiles
    /\ line = 0
    /\ priority = NORMAL_PRIORITY
    /\ hist = NoSigHist
    /\ board = NewBoard(0, 0)
    /\ bfps = 1
    /\ nupd = 0
    /\ braised = FALSE

\* one pass of the body both loops share: the counters and flags, the
\* draw() and update() of the current group, the next group on its end
LoopPass(c, queue) ==
    LET idle   == ~c.groups_show /\ ~c.groups_over
        show   == c.groups_show
                  \/ (idle /\ Reached(c.pre_count, proj.pre, proj.fps))
        plays  == show /\ c.cur_group.pre # None
        u      == SigUpdate(c.cur_group, proj.fps, SignalsInit, FALSE)
        over   == plays /\ u.over
        last   == over /\ queue = <<>>
        next   == IF ~plays THEN c.cur_group
                  ELSE IF ~over THEN u.g
                  ELSE IF last THEN NoSigGroup
                  ELSE SigReset(Head(queue))
    IN  [ctl |-> [c EXCEPT
                    !.groups_show = show /\ ~last,
                    !.groups_over = @ \/ last,
                    !.pre_count = IF ~show /\ ~c.groups_over
                                  THEN @ + 1 ELSE @,
                    !.anim_over =
                        @ \/ (c.groups_over
                              /\ Reached(c.post_count, proj.post, proj.fps)),
                    !.post_count = IF c.groups_over THEN @ + 1 ELSE @,
                    !.cur_group = next],
         groups |-> IF over /\ ~last THEN Tail(queue) ELSE queue]

\* while not (window.has_exit or anim_over): one pass of display()
LoopDisplay ==
    /\ ctl.pc = "loop"
    /\ ~ctl.export
    /\ ~(ctl.has_exit \/ ctl.anim_over)
    /\ LET r == LoopPass(ctl, groups)
       IN  /\ ctl' = r.ctl
           /\ groups' = r.groups
    /\ UNCHANGED <<boardvars, proj, avail, cmds, runstate, eyetracking,
                   waitscreen, frame, prev, files, line, trigger, priority,
                   hist>>

\* the user closes the window: dispatch_events() sets window.has_exit
LoopExit ==
    /\ ctl.pc = "loop"
    /\ ~ctl.export
    /\ ~ctl.has_exit
    /\ ctl' = [ctl EXCEPT !.has_exit = TRUE]
    /\ UNCHANGED <<boardvars, proj, groups, avail, cmds, runstate,
                   eyetracking, waitscreen, frame, prev, files, line, trigger,
                   priority, hist>>

\* the loop condition of export(): count < frames or anim_over
ExportGoesOn(c) == c.count * TimeDen < c.frames \/ c.anim_over

\* while count < frames or anim_over: one pass of export(), which saves the
\* frame and counts it
LoopExport ==
    /\ ctl.pc = "loop"
    /\ ctl.export
    /\ ExportGoesOn(ctl)
    /\ ctl.count < MaxExportCount
    /\ LET r == LoopPass(ctl, groups)
       IN  /\ ctl' = [r.ctl EXCEPT !.count = @ + 1]
           /\ groups' = r.groups
           /\ files' = [files EXCEPT !.imgs = Append(@, ctl.count)]
    /\ UNCHANGED <<boardvars, proj, avail, cmds, runstate, eyetracking,
                   waitscreen, frame, prev, line, trigger, priority, hist>>

\* the loop is left: window.close() of display(), fbo.end_render() of
\* export()
LoopEnd ==
    /\ ctl.pc = "loop"
    /\ IF ctl.export THEN ~ExportGoesOn(ctl)
       ELSE ctl.has_exit \/ ctl.anim_over
    /\ ctl' = [ctl EXCEPT !.pc = "done"]
    /\ UNCHANGED <<boardvars, proj, groups, avail, cmds, runstate,
                   eyetracking, waitscreen, frame, prev, files, line, trigger,
                   priority, hist>>

NextLoop == LoopDisplay \/ LoopExit \/ LoopExport \/ LoopEnd

SpecLoop == InitLoop /\ [][NextLoop]_vars

\* the loops go on as long as their conditions hold; the user need not act
SpecLoopFair ==
    SpecLoop /\ WF_vars(LoopDisplay) /\ WF_vars(LoopExport) /\ WF_vars(LoopEnd)

(***************************************************************************)
(* Claims about CheckerBoard.update                                        *)
(***************************************************************************)
BoardN == FramesPerHalfPeriod(bfps, board.freq)

BoardH == bfps \div (2 * board.freq)

\* the half-cycle the continuous phase lies in after u updates
HalfCycleAfter(u) ==
    (board.phase * BoardH + 180 * u) \div (180 * BoardH)

\* C7: for freq > 0 and fps > 0, flipped becomes true exactly once per
\* half-period (every fps/(2*freq) frames) and after 2*fps/freq*k updates the
\* phase equals its starting value; stated for the rates whose half-period
\* fps/(2*freq) is a whole number of frames.
C7_OncePerHalfPeriod ==
    (/\ board.freq > 0
     /\ bfps % (2 * board.freq) = 0
     /\ nupd >= 1)
    => /\ board.flipped <=> HalfCycleAfter(nupd) # HalfCycleAfter(nupd - 1)
       /\ nupd % (2 * BoardH) = 0 => board.cur_phase = DecInt(board.phase)

\* C8: after every update(fps), flipped is true if and only if
\* floor(_cur_phase/180) differs from floor(_prev_phase/180), _prev_phase
\* being the phase held before the call, and the phase stays in [0, 360);
\* when freq = 0 the phase is unchanged and flipped is false.
C8_FlipFlag ==
    [][nupd' = nupd + 1 =>
        /\ board'.prev_phase = board.cur_phase
        /\ board'.flipped <=>
               (board'.cur_phase.i \div 180) # (board.cur_phase.i \div 180)
        /\ board'.cur_phase.i \in 0..359
        /\ board.freq = 0 =>
               board'.cur_phase = board.cur_phase /\ ~board'.flipped]_vars

\* a flip on the wrap from 360 back to 0 has happened
C8_Witness ==
    /\ nupd >= 2
    /\ board.flipped
    /\ board.cur_phase.i < 180
    /\ board.prev_phase.i >= 180

(***************************************************************************)
(* Claims about CkgDisplayGroup.display                                    *)
(***************************************************************************)
InGroup == ctl.pc \in {"grp_pre", "grp_disp", "grp_post"}

\* t * fps is a whole number of frames
Whole(t) == t # Infinity /\ (t * runstate.fps) % TimeDen = 0

\* that number of frames
WholeFrames(t) == (t * runstate.fps) \div TimeDen

WholeGroup == Whole(Grp.pre) /\ Whole(Grp.disp) /\ Whole(Grp.post)

\* index of the last frame within the running display(runstate) call
LocalIndex == frame.index - ctl.start

\* the call has rendered a frame
FrameInGroup == frame.index # None /\ LocalIndex >= 0

\* display(runstate) is about to return and terminate is not set
GroupOver == ctl.pc = "grp_post" /\ ENABLED GrpPostDone /\ ~runstate.terminate

\* C1: for a group whose pre*fps, disp*fps, post*fps are whole numbers
\* P, D, Q, display(runstate) without terminate renders exactly P+D+Q frames
\* and draws the shapes on exactly the frames of local index c with
\* P <= c < P+D.
C1_GroupFrames ==
    (InGroup /\ WholeGroup) =>
        LET P == WholeFrames(Grp.pre)
            D == WholeFrames(Grp.disp)
            Q == WholeFrames(Grp.post)
        IN  /\ FrameInGroup =>
                 (frame.shapes.gid # None <=>
                     (P <= LocalIndex /\ LocalIndex < P + D))
            /\ GroupOver => runstate.count - ctl.start = P + D + Q

\* a group of P = 1, D = 2, Q = 1 is over after 4 frames, the last one blank
C1_Witness ==
    /\ InGroup /\ WholeGroup /\ GroupOver
    /\ WholeFrames(Grp.pre) = 1
    /\ WholeFrames(Grp.disp) = 2
    /\ WholeFrames(Grp.post) = 1
    /\ LocalIndex = 3
    /\ frame.shapes.gid = None
    /\ prev.shapes.gid # None

\* C9: for all pre, disp, post and fps, products that are no whole numbers
\* included, display(runstate) shows the shapes on exactly round(disp*fps)
\* frames out of round((pre+disp+post)*fps) frames rendered.
C9_RoundedFrames ==
    (InGroup /\ Grp.disp # Infinity /\ ~runstate.terminate) =>
        /\ (ctl.pc = "grp_disp" /\ ENABLED GrpDispDone) =>
               ctl.count = RoundFrames(Grp.disp, runstate.fps)
        /\ GroupOver =>
               runstate.count - ctl.start =
                   RoundFrames(Grp.pre + Grp.disp + Grp.post, runstate.fps)

(***************************************************************************)
(* Claims about CkgRunState.update and encode_events                       *)
(***************************************************************************)
Rendered == frame.index # None

TrigEnabled == runstate.disp_ops.trigser \/ runstate.disp_ops.trigpar

\* C2: with a trigger port enabled, update() transmits a byte on a frame
\* only if the code of encode_events() differs from the code of the previous
\* frame.
C2_SendOnlyOnChange ==
    (Rendered /\ TrigEnabled) => (frame.sent => frame.code # prev.code)

\* the code of the highest-priority pending event, for the eye-tracking
\* state s
PriorityCode(ev, s) ==
    IF ev.ord_id # None THEN ev.ord_id + 1
    ELSE IF ev.blk_on THEN 128
    ELSE IF ev.blk_off THEN 127
    ELSE IF ev.grp_on THEN 100 + s
    ELSE IF ev.grp_off THEN 90 + s
    ELSE IF s > 0 THEN 110 + s
    ELSE IF ev.sids # {}
         THEN 16 + Cardinality(ev.sids \cap {0}) + 2 * Cardinality(ev.sids \cap {1})
              + 4 * Cardinality(ev.sids \cap {2}) + 8 * Cardinality(ev.sids \cap {3})
    ELSE 0

\* the states s the claim allows: 4 for fixation start, 2 for tracking
\* start, 1 for tracking stop, 0 when no such transition is pending
ClaimedStates(ev) ==
    LET some == {s \in {1, 2, 4} : \/ s = 4 /\ ev.fix_on
                                   \/ s = 2 /\ ev.track_on
                                   \/ s = 1 /\ ev.track_off}
    IN  IF some = {} THEN {0} ELSE some

\* C3 as claimed: the code of a frame is that of the highest-priority
\* pending event, the eye-tracking state being 4, 2, 1 for fixation start,
\* tracking start, tracking stop and 0 when none of them is pending.
C3_CodeAsClaimed ==
    Rendered =>
        \E s \in ClaimedStates(frame.events) :
            frame.code = PriorityCode(frame.events, s)

\* the state s as amended: a pending fixation stop counts as 2
AmendedState(ev) ==
    IF ev.track_off THEN 1
    ELSE IF ev.fix_off THEN 2
    ELSE IF ev.fix_on THEN 4
    ELSE IF ev.track_on THEN 2
    ELSE 0

\* C3 as amended: the code of a frame is that of the highest-priority
\* pending event, the eye-tracking state s being 1 if a tracking stop is
\* pending, else 2 if a fixation stop is pending, else 4 if a fixation start
\* is pending, else 2 if a tracking start is pending, else 0.
C3_CodeAmended ==
    Rendered => frame.code = PriorityCode(frame.events, AmendedState(frame.events))

\* a frame on which only the fixation stop is pending is coded 112
C3_Witness ==
    /\ Rendered
    /\ frame.events.fix_off
    /\ ~frame.events.track_off
    /\ frame.code = 112

\* C10: if blk_on is pending at the update() of frame n and the run has a
\* registered order id, the order-id event is pending at frame n+1 and its
\* code ord_id+1 is the code of frame n+1; the order-id event is pending on
\* no other frame.
C10_OrderIdFollowsBlockStart ==
    Rendered =>
        /\ (prev.index # None /\ prev.events.blk_on /\ runstate.ord_id # None) =>
               /\ frame.events.ord_id = runstate.ord_id
               /\ frame.code = runstate.ord_id + 1
        /\ frame.events.ord_id # None =>
               prev.index # None /\ prev.events.blk_on

\* the order id 1 is announced by the code 2 on the frame after a block start
C10_Witness ==
    /\ Rendered
    /\ prev.index # None
    /\ prev.events.blk_on
    /\ prev.code = 128
    /\ frame.events.ord_id = 1
    /\ frame.code = 2

(***************************************************************************)
(* Claims about CkgProj.export() and CkgProj.display()                     *)
(***************************************************************************)
\* export() has returned
Exported == ctl.pc = "idle" /\ runstate.disp_ops.export

\* C4: export() with a target frame count N >= 1 writes exactly N image
\* files carrying the frame indices 0..N-1 in order, each padded to the
\* width digits(N-1).
C4_ExportsNFiles ==
    (/\ Exported
     /\ runstate.frames # Infinity
     /\ runstate.frames >= TimeDen
     /\ runstate.frames % TimeDen = 0)
    => LET N == runstate.frames \div TimeDen
       IN  /\ Len(files.imgs) = N
           /\ \A k \in 1..Len(files.imgs) :
                 /\ files.imgs[k].index = k - 1
                 /\ files.imgs[k].width = DigitsOf(N - 1)

\* C5: for the same order and repeats, every frame display() renders
\* (waitless, no eye tracking, no wait screen in the order) has the content
\* export() rendered at that frame index: shapes, colour phase and cross.
C5_ExportAsDisplayed ==
    (/\ ctl.pc \notin {"idle", "raised"}
     /\ ~runstate.disp_ops.export
     /\ runstate.disp_ops.waitless
     /\ ~runstate.disp_ops.eyetrack
     /\ runstate.order = files.order
     /\ runstate.disp_ops.repeats = files.repeats
     /\ \A k \in 1..Len(runstate.order) : runstate.order[k] # -1
     /\ Rendered
     /\ frame.index < Len(files.imgs))
    => /\ files.imgs[frame.index + 1].shapes = frame.shapes
       /\ files.imgs[frame.index + 1].cross = frame.cross

(***************************************************************************)
(* Claims about the trigger sent by CkgRunState.update()                   *)
(***************************************************************************)
\* a frame with no pending event follows a frame whose event code was
\* transmitted
AfterSentFrame ==
    /\ Rendered
    /\ TrigEnabled
    /\ prev.index # None
    /\ prev.sent
    /\ prev.code # 0
    /\ frame.events = DefaultEvents

PendingSids ==
    IF ctl.pc = "raised" THEN runstate.events.sids ELSE frame.events.sids

\* C12: with fpst = m > 0 and freqcheck off, the index of shape n is added
\* to the pending shape ids on exactly the frames on which its m-th,
\* 2m-th, ... flip since reset() is counted, the counter is 0 again on those
\* frames, and 0 <= _flip_count[n] < m after every CkgDisplayGroup.update.
C12_EveryMthFlip ==
    LET m == runstate.disp_ops.fpst IN
    hist.updated =>
        \A k \in 1..Len(Grp.shapes) :
            /\ (k - 1) \in PendingSids <=>
                   (k \in hist.counted /\ hist.n[k] % m = 0)
            /\ (k - 1) \in PendingSids => Grp.flip_count[k] = 0
            /\ Grp.flip_count[k] >= 0
            /\ Grp.flip_count[k] < m
            /\ Grp.flip_count[k] = hist.n[k] % m

\* the fourth flip of a shape is counted and fpst is 2: its index is pending
C12_Witness ==
    /\ hist.updated
    /\ runstate.disp_ops.fpst = 2
    /\ 1 \in hist.counted
    /\ hist.n[1] = 4
    /\ 0 \in frame.events.sids
    /\ Grp.flip_count[1] = 0

(***************************************************************************)
(* Claims about the fixation check of a trial                              *)
(***************************************************************************)
\* the disp loop of the group on display has been left
DispLeft == ctl.pc = "grp_post" /\ runstate.disp_ops.eyetrack

\* C13: with eye tracking enabled, when CkgDisplayGroup.display returns
\* true_fail is set if and only if on at least one frame of the disp
\* interval (not pre, not post) the debounced state was tracked and not
\* fixated; frames on which the eye is not tracked never fail the trial.
C13_FailIffTrackedUnfixated ==
    DispLeft =>
        (runstate.true_fail <=>
            \E k \in 1..Len(hist) : hist[k].tracked /\ ~hist[k].fixated)

\* a trial with an untracked frame and a fixated frame has not failed
C13_Witness ==
    /\ DispLeft
    /\ ctl.count > 0
    /\ ~runstate.true_fail
    /\ \E k \in 1..Len(hist) : ~hist[k].tracked
    /\ \E k \in 1..Len(hist) : hist[k].tracked /\ hist[k].fixated

\* a trial with a frame tracked off the fixation point has failed
C13_WitnessFail ==
    /\ DispLeft
    /\ runstate.true_fail
    /\ \E k \in 1..Len(hist) : hist[k].tracked /\ ~hist[k].fixated

(***************************************************************************)
(* Claims about the retry queue of CkgProj.display()                       *)
(***************************************************************************)
\* a display group of the main repeats loop has just been played, and it
\* failed
FailedInMainLoop ==
    /\ ctl.pc = "grp_post"
    /\ ctl.ret = "main"
    /\ ctl.gid \in 0..(Len(groups) - 1)
    /\ runstate.true_fail

\* C14: in display() the retry queue add_gids grows only by appending the
\* id of the group just played in the main repeats loop, and only when that
\* group's true_fail is set, the run is not terminated and
\* len(add_gids) < tryagain; hence len(add_gids) <= tryagain in every
\* reachable state, and with tryagain = 0 no group is ever retried.
C14_RetryQueue ==
    /\ [](Len(runstate.add_gids) <= runstate.disp_ops.tryagain)
    /\ []((runstate.disp_ops.tryagain = 0 /\ ctl.pc \in {"grp_pre", "grp_disp", "grp_post"})
            => ctl.ret = "main")
    /\ [][Len(runstate'.add_gids) > Len(runstate.add_gids) =>
            /\ FailedInMainLoop
            /\ runstate'.add_gids = Append(runstate.add_gids, ctl.gid)
            /\ ~runstate.terminate
            /\ Len(runstate.add_gids) < runstate.disp_ops.tryagain]_vars

\* the bounds of the queue alone
C14_QueueBounded ==
    /\ Len(runstate.add_gids) <= runstate.disp_ops.tryagain
    /\ (runstate.disp_ops.tryagain = 0 /\ ctl.pc \in {"grp_pre", "grp_disp", "grp_post"})
           => ctl.ret = "main"

(***************************************************************************)
(* Claims about the order of a run                                         *)
(***************************************************************************)
\* display() or export() has made its run state for the call Head(cmds)
RunStateMade == ctl.pc # "idle" /\ cmds # <<>>

\* C15: display() and export() resolve the run order by this priority: a
\* non-empty explicit order argument is used as given; otherwise, if the
\* project has registered orders, one of the registered orders is used;
\* otherwise the ascending order 0..len(groups)-1 is used.
C15_OrderResolution ==
    RunStateMade =>
        IF Len(Head(cmds).order) > 0
        THEN runstate.order = Head(cmds).order
        ELSE IF Len(proj.orders) > 0
        THEN \E k \in 1..Len(proj.orders) : runstate.order = proj.orders[k]
        ELSE runstate.order = [k \in 1..Len(groups) |-> k - 1]

\* an explicit order is used although the project has registered orders
C15_Witness ==
    /\ RunStateMade
    /\ Len(proj.orders) > 0
    /\ Head(cmds).order = <<1>>
    /\ runstate.order = <<1>>
    /\ Rendered

\* without an argument the second of the registered orders is used
C15_WitnessRegistered ==
    /\ RunStateMade
    /\ Head(cmds).order = <<>>
    /\ Len(proj.orders) = 2
    /\ runstate.order = proj.orders[2]
    /\ Rendered

\* without an argument and registered orders the groups run in ascending
\* order
C15_WitnessAscending ==
    /\ RunStateMade
    /\ Head(cmds).order = <<>>
    /\ proj.orders = <<>>
    /\ runstate.order = <<0, 1>>
    /\ Rendered

(***************************************************************************)
(* Claims about the debouncing of eyetracking.py                           *)
(***************************************************************************)
\* the latest poll of the history h changed the state only after the polls
\* needed, all of which differed from the state returned before
ChangedAfter(h, n) ==
    (h # <<>> /\ h[Len(h)] = "changed") =>
        /\ Len(h) >= n
        /\ \A k \in (Len(h) - n + 1)..(Len(h) - 1) : h[k] = "diff"

\* the count of the differing polls since the latest poll that agreed with
\* the state or changed it
RECURSIVE Differing(_)
Differing(h) ==
    IF h = <<>> \/ h[Len(h)] # "diff" THEN 0
    ELSE 1 + Differing(SubSeq(h, 1, Len(h) - 1))

\* C16: the debounced state returned by is_tracked (and likewise
\* is_fixated) changes at a poll only if the raw status differed from the
\* previously returned state at that poll and at every one of the
\* immediately preceding polls needed to reach the threshold
\* period/1000*fps; a single poll on which the raw status equals the
\* returned state restarts the count from 0.
C16_Debounced ==
    hist # <<>> =>
        /\ ChangedAfter(hist.track, PollsNeeded(TRACK_PER, runstate.fps))
        /\ ChangedAfter(hist.fix, PollsNeeded(FIX_PER, runstate.fps))
        /\ eyetracking.trackcount = Differing(hist.track)
        /\ eyetracking.fixcount = Differing(hist.fix)

\* at 10 frames per second the tracked state changes at the third
\* differing poll in a row
C16_Witness ==
    /\ runstate.fps = 10
    /\ hist # <<>>
    /\ Len(hist.track) = 3
    /\ hist.track = <<"diff", "diff", "changed">>
    /\ eyetracking.lasttrackstatus
    /\ eyetracking.trackcount = 0

(***************************************************************************)
(* Claims about the end of a run                                           *)
(***************************************************************************)
\* an update() of the run has returned in this step
UpdateReturned == runstate'.count = runstate.count + 1 /\ frame' # frame

C17_WitnessExport ==
    /\ runstate.terminate
    /\ runstate.disp_ops.export
    /\ runstate.frames # Infinity
    /\ runstate.count * TimeDen >= runstate.frames
    /\ ctl.pc = "idle"

(***************************************************************************)
(* Claims about the failures of a run                                      *)
(***************************************************************************)
\* display() was left by an exception after runstate.start() had returned
DisplayFailed ==
    /\ ctl.pc = "raised"
    /\ ctl.started
    /\ ~runstate.disp_ops.export

\* C18: once CkgRunState.start() has returned, a display() run ends only by
\* natural completion of its sequence or by the user closing the window: no
\* failure of an optional subsystem (trigger port, eye tracker) is raised
\* between frames of the run.
C18_NoFailureBetweenFrames ==
    (DisplayFailed /\ Rendered) =>
        ctl.err \notin {"EyetrackingError", "NotImplementedError"}

\* C19: whenever display() or export() is left by an error raised in or
\* after runstate.start(), the stop() cleanup has still been performed:
\* every trigger port that was opened is released, the eye-tracking session
\* is stopped, the framebuffer is deleted and the process priority is
\* restored.
C19_CleanupOnError ==
    ctl.pc = "raised" =>
        /\ trigger = PortsClosed
        /\ ~eyetracking.Tracking
        /\ ~runstate.fbo
        /\ priority = NORMAL_PRIORITY

(***************************************************************************)
(* Claims about CkgRunState.start()                                        *)
(***************************************************************************)
\* a precondition of start() fails for the call kw
PreconditionFails(kw) ==
    \/ kw.no_ops
    \/ kw.ops.export /\ ~avail.expo_dir
    \/ kw.ops.trigser /\ ~avail.serial
    \/ kw.ops.trigpar /\ ~avail.parallel
    \/ kw.ops.eyetrack /\ ~avail.eyetracking
    \/ kw.ops.eyetrack /\ ~avail.calibrated

\* C20: CkgRunState.start() raises an error, before any window is created
\* and before any frame is rendered (no update() has run), in each of these
\* cases: display options missing, export requested with an export path
\* that is not a directory, an enabled serial or parallel port not
\* available, eye tracking enabled but not available or the subject not
\* calibrated.
C20_StartRaises ==
    (ctl.pc # "idle" /\ cmds # <<>> /\ PreconditionFails(Head(cmds))) =>
        /\ ctl.pc = "raised"
        /\ ctl.err \in {"ValueError", "IOError", "NotImplementedError",
                        "EyetrackingError"}
        /\ ~ctl.started
        /\ ~runstate.window
        /\ ~runstate.fbo
        /\ ~Rendered
        /\ runstate.count = 0

\* start() has raised for an uncalibrated subject, everything else in place
C20_Witness ==
    /\ ctl.pc = "raised"
    /\ ctl.err = "EyetrackingError"
    /\ Head(cmds).ops.eyetrack
    /\ Head(cmds).ops.trigpar
    /\ avail = [AllAvailable EXCEPT !.calibrated = FALSE]
    /\ ~runstate.window
    /\ ~Rendered

\* start() has raised for missing display options
C20_WitnessNoOps ==
    ctl.pc = "raised" /\ ctl.err = "ValueError" /\ Head(cmds).no_ops

\* start() has raised for an export path that is not a directory
C20_WitnessExpoDir ==
    /\ ctl.pc = "raised"
    /\ ctl.err = "IOError"
    /\ Head(cmds).ops.export
    /\ ~avail.expo_dir

\* start() has raised for a port that is enabled and not available
C20_WitnessPort ==
    /\ ctl.pc = "raised"
    /\ ctl.err = "NotImplementedError"
    /\ Head(cmds).ops.trigser
    /\ ~avail.serial
    /\ avail.eyetracking

(***************************************************************************)
(* Claims about the frames of export()                                     *)
(***************************************************************************)
\* export() has computed a number of frames for the call Head(cmds) that
\* exceeds MAX_EXPORT_FRAMES
TooManyFrames ==
    /\ ctl.pc # "idle"
    /\ ctl.started
    /\ cmds # <<>>
    /\ Head(cmds).ops.export
    /\ Head(cmds).ops.expo_dur # None
    /\ LET frames == ExportFrames(runstate.order, Head(cmds).ops)
       IN  frames = Infinity \/ frames > MAX_EXPORT_FRAMES * TimeDen

\* C21: if the number of frames to export exceeds MAX_EXPORT_FRAMES and
\* force is not set, export() raises FrameOverflowError before any frame
\* file has been written; the same call with force=True does not raise it
\* and exports the frames.
C21_FrameOverflow ==
    TooManyFrames =>
        IF Head(cmds).force
        THEN ctl.pc # "raised"
        ELSE /\ ctl.pc = "raised"
             /\ ctl.err = "FrameOverflowError"
             /\ files.imgs = <<>>

\* C21 for a finite number of frames
C21_FiniteFrameOverflow ==
    (TooManyFrames /\ ExportFrames(runstate.order, Head(cmds).ops) # Infinity)
    => IF Head(cmds).force
       THEN ctl.pc # "raised"
       ELSE /\ ctl.pc = "raised"
            /\ ctl.err = "FrameOverflowError"
            /\ files.imgs = <<>>

(***************************************************************************)
(* Claims about CkgRunState.stop()                                         *)
(***************************************************************************)
\* runstate.stop() is called in this step: the post loop of the project is
\* left without another update()
StopCalled ==
    /\ ctl.pc = "proj_post"
    /\ ctl'.pc # "proj_post"
    /\ runstate'.count = runstate.count

\* C22: CkgRunState.stop() performs the reverse of start() - stops eye
\* tracking, deletes the framebuffer, closes the window unless exporting,
\* releases every enabled trigger port, resets the process priority to
\* normal - and completes without raising, also when setting the priority
\* is not possible or raising it had failed in start().
C22_StopCompletes ==
    [][StopCalled =>
          /\ ctl'.pc = "idle"
          /\ ~eyetracking'.Tracking
          /\ ~runstate'.fbo
          /\ ~runstate'.window
          /\ trigger' = PortsClosed
          /\ priority' = NORMAL_PRIORITY]_vars

\* C22 for the runs that enable no trigger port
C22_StopWithoutPorts ==
    [][(StopCalled /\ ~TrigEnabled) =>
          /\ ctl'.pc = "idle"
          /\ ~eyetracking'.Tracking
          /\ ~runstate'.fbo
          /\ ~runstate'.window
          /\ trigger' = PortsClosed
          /\ priority' = NORMAL_PRIORITY]_vars

(***************************************************************************)
(* Claims about a group that is displayed without end                      *)
(***************************************************************************)
\* display(runstate) of a group whose disp is Infinity is in its pre or
\* disp interval, and terminate is not set
ShowingForever ==
    /\ ctl.pc \in {"grp_pre", "grp_disp"}
    /\ Grp.disp = Infinity
    /\ ~runstate.terminate

\* C23: a display group whose disp is Infinity (the default) never moves on
\* to its post interval on its own: inside display(runstate) its shapes are
\* drawn on every frame after the pre interval until terminate is set from
\* outside the group, and only then does display return.
C23_InfiniteDisp ==
    [][ShowingForever =>
          /\ ctl'.pc \in {"grp_pre", "grp_disp"}
          /\ (ctl.pc = "grp_disp" /\ frame' # frame) =>
                 frame'.shapes.gid = GroupAt(groups, ctl.gid) - 1]_vars

(***************************************************************************)
(* Claims about CheckerBoard.draw                                          *)
(***************************************************************************)
\* a frame of the group has been drawn with photoburst, and its shapes
\* updated after the draw
BurstFrame ==
    /\ hist.updated
    /\ ctl.pc # "raised"
    /\ runstate.disp_ops.photoburst

\* shape k had just flipped when the frame was drawn
JustFlipped(k) == k \in hist.counted

\* the half-period shape k was in when the frame was drawn
HalfDrawn(k) == Half(Grp.shapes[k].prev_phase)

\* C24: with photoburst enabled, CheckerBoard.draw renders model 0 for
\* exactly one frame after every flip (after the crossing of 180 degrees as
\* well as after the crossing of 360/0 degrees), regardless of the true
\* phase at that frame.
C24_BurstAfterEveryFlip ==
    BurstFrame =>
        \A k \in 1..Len(Grp.shapes) :
            frame.shapes.models[k] = 0 <=> JustFlipped(k)

\* C24 as the code has it: with photoburst enabled, draw renders model 0
\* on exactly the frames drawn just after a flip into the first half-period
\* (the crossing of 360/0 degrees), and model 1 on every other frame, the
\* frame after the crossing of 180 degrees included.
C24_BurstAfterWrap ==
    BurstFrame =>
        \A k \in 1..Len(Grp.shapes) :
            /\ frame.shapes.models[k] = 0 <=>
                   (JustFlipped(k) /\ HalfDrawn(k) = 0)
            /\ frame.shapes.models[k] \in {0, 1}

\* a frame drawn with model 1 just after the crossing of 180 degrees
C24_Witness ==
    /\ BurstFrame
    /\ JustFlipped(1)
    /\ HalfDrawn(1) = 1
    /\ frame.shapes.models[1] = 1

\* a frame drawn with model 0 just after the crossing of 360/0 degrees
C24_WitnessWrap ==
    /\ BurstFrame
    /\ JustFlipped(1)
    /\ HalfDrawn(1) = 0
    /\ frame.shapes.models[1] = 0

\* the order without its wait-screen entries
IsGroupId(gid) == gid # -1

WithoutWaits(order) == SelectSeq(order, IsGroupId)

\* C25: a wait-screen entry (group id -1), whose duration() is always 0,
\* never contributes to timing budgets: the total frame count that export()
\* computes for an order containing -1 entries equals the one it computes
\* for the same order with the -1 entries removed.
C25_WaitsCountNothing ==
    (/\ ctl.pc \notin {"idle", "raised"}
     /\ runstate.disp_ops.export
     /\ runstate.frames # None)
    => runstate.frames =
           ExportFrames(WithoutWaits(runstate.order), runstate.disp_ops)

(***************************************************************************)
(* Claims about the reproducibility of a run                               *)
(***************************************************************************)
\* C26: display() is deterministic: two runs given the same resolved order,
\* the same display options and the same per-frame inputs (raw eye samples,
\* key states, window-close events) produce the same sequence of played
\* group ids, the same fail flags, the same retry queue and the same
\* trigger code on every frame.
C26_SameInputsSameRun ==
    ~hist.earlier =>
        /\ frame.code = hist.out.code
        /\ frame.sent = hist.out.sent
        /\ runstate.fix_fail = hist.rs.fix_fail
        /\ runstate.tracked = hist.rs.tracked
        /\ runstate.fixated = hist.rs.fixated
        /\ runstate.terminate = hist.rs.terminate

(***************************************************************************)
(* Claims about the log of a run                                           *)
(***************************************************************************)
\* the run state is that of a run which logs the time or the duration of
\* its frames
LogsStamps == runstate.disp_ops.logtime \/ runstate.disp_ops.logdur

\* C27: when logtime or logdur is enabled, after k calls of update() the
\* buffers timestamps, durstamps and trigstamps each hold exactly k entries,
\* and log() writes exactly one row of stamps per rendered frame.
C27_OneStampPerUpdate ==
    /\ LogsStamps =>
          /\ Len(runstate.timestamps) = runstate.count
          /\ Len(runstate.durstamps) = runstate.count
          /\ Len(runstate.trigstamps) = runstate.count
    /\ (LogsStamps /\ ctl.pc = "idle" /\ ~runstate.disp_ops.nolog
           /\ ~runstate.disp_ops.export) =>
          Len(files.rows) = runstate.count

\* a run that logs durations only has made frames
C27_Witness ==
    /\ runstate.disp_ops.logdur
    /\ ~runstate.disp_ops.logtime
    /\ runstate.count >= 3

\* log() has written the rows of a run
C27_WitnessLog ==
    /\ LogsStamps
    /\ Len(files.rows) >= 3
    /\ ctl.pc = "idle"

(***************************************************************************)
(* Claims about the assignment of attributes                               *)
(***************************************************************************)
\* the value of the latest assignment is one the attribute does not take
WrongValue ==
    CASE hist.name \in {"dims", "init_unit", "end_unit", "position", "res"}
            -> Len(hist.value) # 2
      [] hist.name = "bg" -> Len(hist.value) # 3
      [] hist.name = "cols" ->
            ~(/\ Len(hist.value) = 2
              /\ Len(hist.value[1]) = 3
              /\ Len(hist.value[2]) = 3)
      [] hist.name = "anchor" -> hist.value \notin locations
      [] hist.name = "export_fmt" -> hist.value # "png"
      [] OTHER -> FALSE

\* the object the latest assignment was made to
Assigned == IF hist.target = "board" THEN board ELSE proj

\* C28: assigning a value of wrong arity (dims, init_unit, end_unit or
\* position not of length 2; cols not two 3-tuples; res not of length 2; bg
\* not of length 3), an unknown anchor or an unsupported export format
\* raises an error at the assignment itself, and the object then still holds
\* its previous value of that attribute and its recompute flag is unchanged.
C28_WrongValueRejected ==
    (hist.target # "none" /\ WrongValue) =>
        /\ braised
        /\ Assigned[hist.name] = hist.old
        /\ hist.target = "board" => board.computed = hist.flag
        /\ hist.target = "proj" => proj.dirty = hist.flag

\* a pair of colours with a colour of two components has been assigned to
\* a board that was computed and no longer had its default colours
C28_Witness ==
    /\ hist.target = "board"
    /\ hist.name = "cols"
    /\ Len(hist.value) = 2
    /\ WrongValue
    /\ hist.flag
    /\ hist.old # DefaultBoardAttrs.cols

\* a resolution of three numbers has been assigned to a saved project
C28_WitnessProj ==
    /\ hist.target = "proj"
    /\ hist.name = "res"
    /\ WrongValue
    /\ ~hist.flag
    /\ hist.old # DefaultProjAttrs.res

(***************************************************************************)
(* Claims about display() of src/core.py                                   *)
(***************************************************************************)
\* t * fps is a whole number of frames
IsWhole(t) == (t * proj.fps) % TimeDen = 0

FramesOf(t) == (t * proj.fps) \div TimeDen

\* the group that has just reported being over has timings of whole frames
OverWhole ==
    /\ hist.over
    /\ IsWhole(hist.pre)
    /\ IsWhole(hist.disp)
    /\ IsWhole(hist.post)

\* C29: for all non-negative integer frame counts P = pre*fps, D = disp*fps,
\* Q = post*fps (zero included), a group driven by reset() and then draw()
\* followed by update(fps) once per frame draws its shapes on exactly D
\* frames and reports being over on its (P+D+Q)-th frame; a group with
\* pre = 0 and disp > 0 is visible on its first frame, and a group whose
\* total duration is 0 occupies no frame.
C29_OccupiesItsDuration ==
    OverWhole =>
        /\ hist.shown = FramesOf(hist.disp)
        /\ hist.total =
             FramesOf(hist.pre) + FramesOf(hist.disp) + FramesOf(hist.post)
        /\ (hist.pre = 0 /\ hist.disp > 0) => hist.first

\* the same for the groups with a post interval of at least one frame and,
\* unless pre is 0, a disp interval of at least one frame
C29_WithPostFrames ==
    (/\ OverWhole
     /\ hist.post > 0
     /\ hist.pre = 0 \/ hist.disp > 0) =>
        /\ hist.shown = FramesOf(hist.disp)
        /\ hist.total =
             FramesOf(hist.pre) + FramesOf(hist.disp) + FramesOf(hist.post)
        /\ (hist.pre = 0 /\ hist.disp > 0) => hist.first

\* the shapes of a group are drawn on the latest frame and were not drawn
\* on the frame before it
FirstDrawn == frame.drawn /\ ~prev.drawn

\* the shapes of a group were drawn on the frame before the latest frame
\* and are not drawn on the latest
FirstBlank == prev.drawn /\ ~frame.drawn

\* C30: in display() of src/core.py with sigser or sigpar enabled, the
\* GROUP_ON value is transmitted right after the flip of the first frame on
\* which the group's shapes are drawn, the GROUP_OFF value right after the
\* flip of the first frame on which they are no longer drawn, and GROUP_ON
\* is never the value transmitted after a frame on which no group is drawn.
C30_SignalsWithTheFrame ==
    (ctl.sigpar /\ frame.index # None) =>
        /\ FirstDrawn => frame.sent = GROUP_ON
        /\ FirstBlank => frame.sent = GROUP_OFF
        /\ frame.sent = GROUP_ON => frame.drawn

\* what the signals do follow: the value transmitted after a flip is that
\* of the frame which comes next, GROUP_ON only when the group that is being
\* played will be drawn on it
C30_SignalsOneFrameAhead ==
    (ctl.sigpar /\ frame.index # None /\ frame.sent = GROUP_ON) =>
        /\ ctl.cur_group.pre # None
        /\ ctl.cur_group.visible

(***************************************************************************)
(* Claims about the statements of CkgRunState.update                       *)
(***************************************************************************)
\* the blocks of update() in the order the claim gives them, the log of the
\* trigger among the log samples
OrderAsClaimed ==
    <<"cross", "flip", "stamps", "trigstamp", "trigger", "clear", "count">>

\* the same with the log of the trigger after the transmission
OrderAmended ==
    <<"cross", "flip", "stamps", "trigger", "trigstamp", "clear", "count">>

IsPrefix(s, t) == Len(s) <= Len(t) /\ SubSeq(t, 1, Len(s)) = s

\* the run logs times or durations
StampsLogged == runstate.disp_ops.logtime \/ runstate.disp_ops.logdur

\* the trigger block is the block executed last
JustTransmitted ==
    /\ hist.steps # <<>>
    /\ hist.steps[Len(hist.steps)] = "trigger"

\* update() has returned: its blocks together did what update() does
ReturnedAsUpdate ==
    (ctl.pc = "call" /\ hist.steps # <<>>) =>
        LET r == update(hist.rs, hist.et, Blank, hist.raw, hist.has_exit)
        IN  /\ runstate = r.rs
            /\ eyetracking = r.et
            /\ frame = r.out

\* C31 as stated: every update() draws the cross and saves or flips the
\* frame, then appends the log samples (timestamps, durstamps and
\* trigstamps), then transmits the trigger code, then clears the event
\* flags, then increments the frame counter and makes the export terminate
\* check.
C31_LogsThenTrigger == IsPrefix(hist.steps, OrderAsClaimed)

\* C31 as amended: every update() draws the cross and saves or flips the
\* frame, then appends the time and duration stamps, then transmits the
\* trigger code, then appends the log entry of the trigger, then clears the
\* event flags, then increments the frame counter and makes the export
\* terminate check; so the trigger of a frame is never transmitted before
\* that frame's flip and never after the events of that frame were cleared.
C31_StepsInOrder ==
    /\ IsPrefix(hist.steps, OrderAmended)
    /\ ReturnedAsUpdate
    /\ JustTransmitted =>
          /\ frame.index = runstate.count
          /\ frame.code = encode_events(runstate.events)
          /\ runstate.count = hist.rs.count
          /\ StampsLogged =>
                /\ Len(runstate.timestamps) = runstate.count + 1
                /\ Len(runstate.durstamps) = runstate.count + 1
                /\ Len(runstate.trigstamps) = runstate.count

\* the code of a block start has just been transmitted, in the second
\* update() of a run that logs its times
C31_Witness ==
    /\ JustTransmitted
    /\ frame.sent
    /\ frame.code = 128
    /\ StampsLogged
    /\ runstate.count = 1

(***************************************************************************)
(* Claims about the groups that are played again                           *)
(***************************************************************************)
\* display() is in its loop through the added groups
InRetry ==
    /\ runstate.disp_ops.eyetrack
    /\ ~runstate.disp_ops.export
    /\ \/ ctl.pc = "added"
       \/ /\ ctl.ret = "add"
          /\ ctl.pc \in {"wait", "grp_pre", "grp_disp", "grp_post"}

\* the entries the repeats of the order have appended to gids
MainPlays == runstate.disp_ops.repeats * Len(runstate.order)

\* the group ids appended to gids by the loop through the added groups
Replayed == SubSeq(runstate.gids, MainPlays + 1, Len(runstate.gids))

\* the position in add_gids the loop through the added groups has reached
RetryPos ==
    LET tb   == runstate.disp_ops.trybreak
        done == ctl.b * tb + (IF ctl.k = None THEN 0 ELSE ctl.k)
    IN  IF done < Len(runstate.add_gids) THEN done
        ELSE Len(runstate.add_gids)

\* the ids played again so far are the first ids of the queue, each once
ReplayedInOrder ==
    /\ (InRetry /\ ~runstate.terminate) =>
          /\ Len(runstate.gids) = MainPlays + RetryPos
          /\ Replayed = SubSeq(runstate.add_gids, 1, RetryPos)
    /\ (/\ ctl.pc = "proj_post"
        /\ runstate.disp_ops.eyetrack
        /\ ~runstate.disp_ops.export
        /\ ~runstate.terminate) => Replayed = runstate.add_gids

\* a block of the added groups starts
BlockStarts == InRetry' /\ ctl.k = None /\ ctl'.k = 0

\* a block of the added groups ends
BlockEnds == InRetry /\ ctl.k # None /\ ctl'.k = None

\* the loop through the added groups turns to its next block, or ends
BlockHead == ctl.pc = "added" /\ ctl.k = None /\ ctl' # ctl

C32_WitnessWait ==
    /\ InRetry
    /\ ~runstate.disp_ops.waitless
    /\ ctl.pc = "grp_disp"
    /\ runstate.events.blk_on

(***************************************************************************)
(* Claims about the events update() leaves                                 *)
(***************************************************************************)
\* this step is an update() of the run state
UpdateStep == runstate'.count = runstate.count + 1

\* none of the per-frame flags is set and no shape id is pending
FlagsCleared(ev) ==
    /\ ~ev.blk_on /\ ~ev.blk_off
    /\ ~ev.track_on /\ ~ev.track_off
    /\ ~ev.fix_on /\ ~ev.fix_off
    /\ ~ev.grp_on /\ ~ev.grp_off
    /\ ev.sids = {}

\* C33: after every update() all per-frame event flags (blk_on, blk_off,
\* track_on, track_off, fix_on, fix_off, grp_on, grp_off) are false and the
\* pending shape-id set is empty; the only event that can be pending right
\* after update() is ord_id, and it is pending exactly when blk_on was
\* pending during that update and the run has an order id.
C33_EventsCleared ==
    [][UpdateStep =>
          /\ FlagsCleared(runstate'.events)
          /\ (runstate'.events.ord_id # None) <=>
                (frame'.events.blk_on /\ runstate.ord_id # None)
          /\ runstate'.events.ord_id \in {None, runstate.ord_id}]_vars

\* an update() has cleared the shape ids of a frame
C33_Witness ==
    /\ frame.events.sids # {}
    /\ FlagsCleared(runstate.events)
    /\ runstate.count = frame.index + 1

\* an update() of a block start has left the order id pending
C33_WitnessOrdId ==
    /\ frame.events.blk_on
    /\ runstate.events.ord_id = 1
    /\ runstate.count = frame.index + 1

(***************************************************************************)
(* Claims about the codes of the group events                              *)
(***************************************************************************)
\* a display with a trigger port
TriggeredDisplay ==
    /\ ~runstate.disp_ops.export
    /\ runstate.disp_ops.trigser \/ runstate.disp_ops.trigpar

\* the latest frame is the first frame of the disp interval of a group
FirstDispFrame ==
    /\ ctl.pc = "grp_disp"
    /\ ctl.count = 1
    /\ frame.index = runstate.count - 1

\* the latest frame is the first frame rendered after the disp interval of
\* a group that had frames
FirstFrameAfterDisp ==
    /\ frame.index = runstate.count - 1
    /\ frame.events.grp_off
    /\ ~frame.events.grp_on
    /\ prev.shapes.gid # None

\* C34: in a display() run with triggers enabled, for each group whose
\* display interval has at least one frame, the code encoded on the first
\* frame of that interval is a group-visible code (100..104), and the code
\* encoded on the first frame rendered after the interval is a group-hidden
\* code (90..94).
C34_VisibilityReported ==
    TriggeredDisplay =>
        /\ FirstDispFrame => frame.code \in 100..104
        /\ FirstFrameAfterDisp => frame.code \in 90..94

\* what holds of the code of such a frame: a group code unless an order id,
\* a block start or a block end is pending on the frame
C34_ReportedUnlessBlockEvent ==
    (/\ TriggeredDisplay
     /\ frame.events.ord_id = None
     /\ ~frame.events.blk_on
     /\ ~frame.events.blk_off) =>
        /\ FirstDispFrame => frame.code \in 100..104
        /\ FirstFrameAfterDisp => frame.code \in 90..94

(***************************************************************************)
(* Claims about the ids in the retry queue                                 *)
(***************************************************************************)
\* the ids of the display groups of the project
GroupIds == 0..(Len(groups) - 1)

\* C35: in every reachable state of display() with eye tracking enabled,
\* add_gids contains only ids g with 0 <= g < len(groups); a wait-screen
\* entry (-1) of the order is never queued for retry, and the retry phase
\* never displays a group whose id is not such an id.
C35_OnlyFailedGroupsQueued ==
    runstate.disp_ops.eyetrack =>
        /\ \A i \in 1..Len(runstate.add_gids) :
               runstate.add_gids[i] \in GroupIds
        /\ (InRetry /\ ctl.pc \in {"grp_pre", "grp_disp", "grp_post"}) =>
               ctl.gid \in GroupIds

\* what holds of the queue: its ids are entries of the order of the run
C35_QueuedFromOrder ==
    runstate.disp_ops.eyetrack =>
        \A i \in 1..Len(runstate.add_gids) :
            \E j \in 1..Len(runstate.order) :
                runstate.add_gids[i] = runstate.order[j]

(***************************************************************************)
(* Claims about the two debounced states of the eye                        *)
(***************************************************************************)
\* C36: provided both polls of a frame observe the same eye sample (a raw
\* sample is fixated only if it is tracked) and the fixation and tracking
\* debounce periods are equal, after every update() with eye tracking
\* enabled the debounced state satisfies: fixated implies tracked.
C36_FixatedImpliesTracked ==
    (runstate.disp_ops.eyetrack /\ FIX_PER = TRACK_PER) =>
        /\ runstate.fixated => runstate.tracked
        /\ eyetracking.lastfixstatus => eyetracking.lasttrackstatus

\* a run at a frame rate that needs several polls for a change has reached
\* the fixated state
C36_Witness ==
    /\ runstate.disp_ops.eyetrack
    /\ PollsNeeded(FIX_PER, runstate.fps) > 1
    /\ runstate.count > 0
    /\ runstate.fixated
    /\ runstate.tracked

\* a run in which the eye is tracked and not fixated, in the second run of
\* a process
C36_WitnessCarried ==
    /\ runstate.disp_ops.eyetrack
    /\ ~hist.earlier
    /\ runstate.count > 0
    /\ runstate.tracked
    /\ ~runstate.fixated
    /\ eyetracking.fixcount > 0

(***************************************************************************)
(* Claims about the precomputed model of a CheckerBoard                    *)
(***************************************************************************)
\* C37: the precomputed model of a CheckerBoard is never stale when drawn:
\* any assignment to dims, init_unit, end_unit, position, anchor or cols
\* clears the computed flag so that the next draw() or reset() recomputes
\* the model before it is used, assignments to freq or phase never clear
\* the flag, and after draw() returns the flag is set.
C37_ModelNeverStale ==
    /\ (/\ hist.op = "set"
        /\ ~hist.raised
        /\ hist.name \in {"dims", "init_unit", "end_unit", "position",
                          "anchor", "cols"}) => ~board.computed
    /\ (hist.op = "set" /\ hist.name \in {"freq", "phase"}) =>
           board.computed = hist.flag
    /\ (hist.op \in {"draw", "reset"} /\ ~hist.flag) => hist.recomputed
    /\ (hist.op = "draw" /\ ~hist.raised) =>
           /\ board.computed
           /\ hist.fresh
    /\ board.computed => hist.batches = ModelOf(board)

\* a board drawn after an assignment to its colours: draw() has recomputed
\* the model
C37_Witness ==
    /\ hist.op = "draw"
    /\ ~hist.raised
    /\ ~hist.flag
    /\ hist.recomputed
    /\ board.cols # DefaultBoardAttrs.cols
    /\ hist.fresh

\* the frequency assigned to a board that is computed
C37_WitnessFreq ==
    /\ hist.op = "set"
    /\ hist.name = "freq"
    /\ board.freq = 2
    /\ board.computed

(***************************************************************************)
(* Claims about the main loops of src/core.py                              *)
(***************************************************************************)
\* the smallest integer not below n / TimeDen
CeilFrames(n) == (n + TimeDen - 1) \div TimeDen

\* C38: in src/core.py, for a project whose pre, post and group durations
\* are finite and non-negative, the main loop of export() terminates after
\* writing exactly as many frames as the smallest integer not below
\* min(export_duration, pre + post + sum of group durations) * fps, and
\* anim_over never becomes true inside the loop.
C38_ExportWritesItsFrames ==
    ctl.export =>
        /\ ~ctl.anim_over
        /\ Len(files.imgs) = ctl.count
        /\ ctl.count <= CeilFrames(ctl.frames)
        /\ ctl.count < MaxExportCount
        /\ ctl.pc = "done" => ctl.count = CeilFrames(ctl.frames)

\* an export that has ended after a number of frames that is not whole,
\* with all its groups played
C38_Witness ==
    /\ ctl.export
    /\ ctl.pc = "done"
    /\ ctl.frames % TimeDen # 0
    /\ ctl.count = CeilFrames(ctl.frames)
    /\ ctl.count > 1
    /\ ctl.groups_over

\* an export cut short by export_duration
C38_WitnessCut ==
    /\ ctl.export
    /\ ctl.pc = "done"
    /\ ctl.count > 0
    /\ ~ctl.groups_over
    /\ ~ctl.empty

\* C39: in src/core.py, display() eventually ends without any user action
\* whenever the project's pre and post and the durations of all its groups
\* are finite: for every such project, including one with no groups, the
\* main loop reaches anim_over after finitely many frames.
C39_DisplayEnds == <>(ctl.export \/ ctl.has_exit \/ ctl.anim_over)

\* what holds: the main loop of a display() that plays at least one group
\* reaches anim_over
C39_DisplayWithGroupsEnds ==
    <>(ctl.export \/ ctl.has_exit \/ ctl.anim_over \/ ctl.empty)

\* the loop of a project with no groups, once the groups are to be shown,
\* passes without changing any of its variables
C39_EmptyProjectIdles ==
    [][(/\ ~ctl.export
        /\ ctl.empty
        /\ ctl.groups_show
        /\ ~ctl.has_exit) =>
            \/ ctl' = ctl
            \/ ctl'.has_exit]_vars

(***************************************************************************)
(* Claims about the frequencies CheckerBoard.update(fps) accepts           *)
(***************************************************************************)
\* a step of update(fps), completed or left by an exception
BoardUpdateStep == nupd' = nupd + 1 \/ (braised' /\ ~braised)

\* C40: for every freq > 0 and fps > 0, including freq larger than fps,
\* CheckerBoard.update(fps) completes without raising an error and advances
\* the phase by a positive number of degrees.
C40_UpdateAdvances ==
    [][(BoardUpdateStep /\ board.freq > 0 /\ bfps > 0) =>
            /\ ~braised'
            /\ board'.cur_phase # board.cur_phase]_vars

\* what holds: update(fps) completes and advances the phase when
\* 0 < freq <= fps
C40_AdvancesUpToFps ==
    [][(BoardUpdateStep /\ board.freq > 0 /\ board.freq <= bfps) =>
            /\ ~braised'
            /\ board'.cur_phase # board.cur_phase]_vars

====
